---- MODULE Spec2Model ----
(***************************************************************************)
(* A model of the crawler command line tool: the scrape and summarize      *)
(* commands (src/src/cli), the Firecrawl and LiteLLM adapters               *)
(* (src/src/services), the validators (src/src/lib/validators.py), the     *)
(* model-string parser (src/src/models/ai_model_config.py) and the error   *)
(* hierarchy (src/src/lib/exceptions.py).                                   *)
(*                                                                         *)
(* Representation.  A Python str is a sequence of one-character strings,   *)
(* so that split, replace, lower, slicing and endswith are computed on     *)
(* characters.  An Optional value is a sequence of length at most one:     *)
(* None is <<>> and a present value v is <<v>>.  A message is a record of  *)
(* the f-string's literal pieces and of the values interpolated into it;   *)
(* a console line is a message and the newline that ends it.               *)
(***************************************************************************)
EXTENDS Integers, Sequences, FiniteSets, TLC

VARIABLES
    os_name,        \* "posix" or "nt": the platform pathlib runs on
    environ,        \* the environment variables Settings reads
    dirs,           \* the directories that exist on disk
    files,          \* the regular files on disk: path -> text
    cmd,            \* the command invoked: "scrape" or "summarize"
    url,            \* --url
    html,           \* --html
    output,         \* --output (Optional)
    model,          \* --model (Optional)
    summary,        \* --summary
    save_original,  \* --save-original
    pc,             \* the position of the command handler
    settings,       \* Optional Settings object of the handler
    model_config,   \* Optional AIModelConfiguration of the handler
    response,       \* Optional ScrapeResponse of the scrape handler
    article,        \* Optional ArticleContent of the summarize handler
    summary_result, \* Optional AISummary of the summarize handler
    stdout,         \* the lines written to standard output
    stderr,         \* the lines written to the error stream
    exit_code,      \* Optional exit code of the process
    caught,         \* Optional exception bound by the handler's except clause
    trace,          \* the provider calls and file writes issued, in order
    fn,             \* the pure function applied (function-level specification)
    fn_in,          \* its input
    fn_out          \* Optional result

cliVars == <<cmd, url, html, output, model, summary, save_original>>
envVars == <<os_name, environ>>
diskVars == <<dirs, files>>
localVars == <<settings, model_config, response, article, summary_result>>
ioVars == <<stdout, stderr, exit_code, caught, trace>>
fnVars == <<fn, fn_in, fn_out>>
vars == <<os_name, environ, dirs, files, cmd, url, html, output, model, summary,
          save_original, pc, settings, model_config, response, article,
          summary_result, stdout, stderr, exit_code, caught, trace, fn, fn_in,
          fn_out>>

None == <<>>
Some(v) == <<v>>

\* LET x == v IN Body(x), with v evaluated once whatever the number of uses
\* of x in the body.
Let(v, Body(_)) == CHOOSE r \in {Body(x) : x \in {v}} : TRUE

(***************************************************************************)
(* Python str operations on character sequences.                           *)
(***************************************************************************)
Uppers == <<"A", "B", "C", "D", "E", "F", "G", "H", "I", "J", "K", "L", "M",
            "N", "O", "P", "Q", "R", "S", "T", "U", "V", "W", "X", "Y", "Z">>
Lowers == <<"a", "b", "c", "d", "e", "f", "g", "h", "i", "j", "k", "l", "m",
            "n", "o", "p", "q", "r", "s", "t", "u", "v", "w", "x", "y", "z">>

LowerChar(c) ==
    IF \E i \in 1..Len(Uppers) : Uppers[i] = c
    THEN Lowers[CHOOSE i \in 1..Len(Uppers) : Uppers[i] = c]
    ELSE c

\* str.lower()
Lower(s) == [i \in 1..Len(s) |-> LowerChar(s[i])]

\* str.replace(a, b) for one-character a and b
ReplaceChar(s, a, b) == [i \in 1..Len(s) |-> IF s[i] = a THEN b ELSE s[i]]

\* pat in s
Contains(s, pat) ==
    \E i \in 0..(Len(s) - Len(pat)) : SubSeq(s, i + 1, i + Len(pat)) = pat

\* s.endswith(suf)
EndsWith(s, suf) ==
    Len(s) >= Len(suf) /\ SubSeq(s, Len(s) - Len(suf) + 1, Len(s)) = suf

\* s.startswith(pre)
StartsWith(s, pre) == Len(s) >= Len(pre) /\ SubSeq(s, 1, Len(pre)) = pre

\* s.find(c) + 1 for a character c: 0 when c is not in s
Find(s, c) ==
    IF \E i \in 1..Len(s) : s[i] = c
    THEN CHOOSE i \in 1..Len(s) : s[i] = c /\ \A j \in 1..(i - 1) : s[j] # c
    ELSE 0

\* s.rfind(c) + 1
RFind(s, c) ==
    IF \E i \in 1..Len(s) : s[i] = c
    THEN CHOOSE i \in 1..Len(s) : s[i] = c /\ \A j \in (i + 1)..Len(s) : s[j] # c
    ELSE 0

\* s[:n]
Prefix(s, n) == SubSeq(s, 1, IF Len(s) < n THEN Len(s) ELSE n)

\* s.split(c) for a character c, and for a set of separator characters
RECURSIVE SplitOn(_, _)
SplitOn(s, seps) ==
    IF \E i \in 1..Len(s) : s[i] \in seps
    THEN LET i == CHOOSE k \in 1..Len(s) :
                      s[k] \in seps /\ \A j \in 1..(k - 1) : s[j] \notin seps
         IN  <<SubSeq(s, 1, i - 1)>> \o SplitOn(SubSeq(s, i + 1, Len(s)), seps)
    ELSE <<s>>

Split(s, c) == SplitOn(s, {c})

\* c.join(parts)
RECURSIVE Join(_, _)
Join(parts, c) ==
    IF parts = <<>> THEN <<>>
    ELSE IF Len(parts) = 1 THEN parts[1]
    ELSE parts[1] \o <<c>> \o Join(Tail(parts), c)

\* [p for p in parts if p]
RECURSIVE NonEmpty(_)
NonEmpty(parts) ==
    IF parts = <<>> THEN <<>>
    ELSE IF parts[1] = <<>> THEN NonEmpty(Tail(parts))
    ELSE <<parts[1]>> \o NonEmpty(Tail(parts))

(***************************************************************************)
(* Messages and console lines.  A message keeps the literal pieces of its  *)
(* f-string and the values interpolated into it; a line is a message       *)
(* followed by the newline that print and typer.echo append.               *)
(***************************************************************************)
Msg(t) == [text |-> <<t>>, args |-> <<>>]
MsgA(t, a) == [text |-> <<t>>, args |-> <<a>>]
\* An f-string of several literal pieces texts around the values args
Fmt(texts, args) == [text |-> texts, args |-> args]
\* f"{prefix}{m}"
Wrap(prefix, m) == [text |-> <<prefix>> \o m.text, args |-> m.args]
Line(m) == [text |-> m.text, args |-> m.args, end |-> "\n"]

\* The interpolated values of a message, concatenated: the part of str(e)
\* that the provider decides.
RECURSIVE Flatten(_)
Flatten(seqs) == IF seqs = <<>> THEN <<>> ELSE seqs[1] \o Flatten(Tail(seqs))
ErrorStr(e) == Flatten(e.message.args)

\* All concatenations of at most n fragments drawn from frags.
Concats(frags, n) == {Flatten(t) : t \in UNION {[1..k -> frags] : k \in 0..n}}

(***************************************************************************)
(* The exception hierarchy (src/src/lib/exceptions.py) and the exceptions  *)
(* of Python and of the libraries that the handlers see.  An exception is  *)
(* a record of its class, exit code and message.                           *)
(***************************************************************************)
\* The classes each class derives from, itself included.
Bases(cls) ==
    CASE cls = "ConfigurationError" -> {"ConfigurationError", "CrawlerError", "Exception"}
      [] cls = "ValidationError" -> {"ValidationError", "CrawlerError", "Exception"}
      [] cls = "FirecrawlApiError" -> {"FirecrawlApiError", "CrawlerError", "Exception"}
      [] cls = "RateLimitError" ->
             {"RateLimitError", "FirecrawlApiError", "CrawlerError", "Exception"}
      [] cls = "OutputError" -> {"OutputError", "CrawlerError", "Exception"}
      [] cls = "AIServiceError" -> {"AIServiceError", "CrawlerError", "Exception"}
      [] cls = "ModelNotFoundError" ->
             {"ModelNotFoundError", "AIServiceError", "CrawlerError", "Exception"}
      [] cls = "RateLimitExceededError" ->
             {"RateLimitExceededError", "AIServiceError", "CrawlerError", "Exception"}
      [] cls = "TokenLimitExceededError" ->
             {"TokenLimitExceededError", "AIServiceError", "CrawlerError", "Exception"}
      \* pydantic_core.ValidationError derives from ValueError
      [] cls = "PydanticValidationError" ->
             {"PydanticValidationError", "ValueError", "Exception"}
      [] cls = "ValueError" -> {"ValueError", "Exception"}
      \* typer.Exit is click.exceptions.Exit, a RuntimeError
      [] cls = "Exit" -> {"Exit", "RuntimeError", "Exception"}
      \* litellm.ContextWindowExceededError derives from litellm.BadRequestError
      [] cls = "LiteLLMContextError" ->
             {"LiteLLMContextError", "LiteLLMBadRequestError", "Exception"}
      [] OTHER -> {cls, "Exception"}

IsInstance(e, cls) == cls \in Bases(e.cls)

CrawlerError(cls, message, code) ==
    [cls |-> cls, code |-> code, message |-> message, details |-> <<>>]
\* CrawlerError(..., details=d): d as the sequence of its <<key, value>> items
WithDetails(e, d) == [e EXCEPT !.details = d]
ConfigurationError(message) == CrawlerError("ConfigurationError", message, 2)
ValidationError(message) == CrawlerError("ValidationError", message, 1)
FirecrawlApiError(message) == CrawlerError("FirecrawlApiError", message, 1)
RateLimitError(message) == CrawlerError("RateLimitError", message, 3)
OutputError(message) == CrawlerError("OutputError", message, 1)
\* The AIServiceError that always carries the default code.
AIServiceError_default_code(message, code) == CrawlerError("AIServiceError", message, 3)
AIServiceError(message, code) == CrawlerError("AIServiceError", message, code)
ModelNotFoundError(message) == CrawlerError("ModelNotFoundError", message, 2)
RateLimitExceededError(message) == CrawlerError("RateLimitExceededError", message, 3)
TokenLimitExceededError(message) == CrawlerError("TokenLimitExceededError", message, 3)
\* An exception that is not a CrawlerError carries no exit code of its own.
Foreign(cls, message) == [cls |-> cls, code |-> -1, message |-> message, details |-> <<>>]

\* The result of a call: a value or a raised exception.
Ok(v) == [ok |-> TRUE, value |-> v]
Raise(e) == [ok |-> FALSE, exc |-> e]

(***************************************************************************)
(* AIModelConfiguration (src/src/models/ai_model_config.py).               *)
(***************************************************************************)
S_gemini == <<"g", "e", "m", "i", "n", "i">>
S_Gemini == <<"G", "e", "m", "i", "n", "i">>
S_openai == <<"o", "p", "e", "n", "a", "i">>
S_anthropic == <<"a", "n", "t", "h", "r", "o", "p", "i", "c">>
S_ollama == <<"o", "l", "l", "a", "m", "a">>
S_vllm == <<"v", "l", "l", "m">>
S_pro == <<"p", "r", "o">>

\* validate_format: TRUE when full_name passes the field validator
validate_format(v) ==
    IF ~Contains(v, <<"/">>) THEN FALSE
    ELSE LET parts == Split(v, "/")
         IN  ~(Len(parts) # 2 \/ parts[1] = <<>> \/ parts[2] = <<>>)

\* The map with the provider matched in any case.
api_key_map_any_case(provider) ==
    CASE Lower(provider) = S_gemini -> Some("GOOGLE_API_KEY")
      [] Lower(provider) = S_openai -> Some("OPENAI_API_KEY")
      [] Lower(provider) = S_anthropic -> Some("ANTHROPIC_API_KEY")
      [] OTHER -> None

\* api_key_map.get(provider)
api_key_map(provider) ==
    CASE provider = S_gemini -> Some("GOOGLE_API_KEY")
      [] provider = S_openai -> Some("OPENAI_API_KEY")
      [] provider = S_anthropic -> Some("ANTHROPIC_API_KEY")
      [] provider = S_ollama -> None
      [] provider = S_vllm -> None
      [] OTHER -> None

\* provider in ["ollama", "vllm"]
is_local_provider(provider) == provider \in {S_ollama, S_vllm}

from_model_string(model_string) ==
    LET i == Find(model_string, "/")
    IN  IF i = 0
        THEN \* provider, model_name = ["no-separator"]: the unpacking fails
             Raise(Foreign("ValueError", Msg("not enough values to unpack (expected 2, got 1)")))
        ELSE LET provider == SubSeq(model_string, 1, i - 1)
                 model_name == SubSeq(model_string, i + 1, Len(model_string))
             IN  IF validate_format(model_string)
                 THEN Ok([full_name |-> model_string,
                          provider |-> provider,
                          model_name |-> model_name,
                          api_key_env_var |-> api_key_map(provider),
                          is_local |-> is_local_provider(provider)])
                 ELSE Raise(Foreign("PydanticValidationError",
                                    MsgA("Invalid model format. Expected 'provider/model-name', got: ",
                                         model_string)))

(***************************************************************************)
(* Validators (src/src/lib/validators.py).  urlparse is the standard       *)
(* library's: scheme up to the first ':', netloc between '//' and the     *)
(* next '/', '?' or '#', then fragment and query split off the path.       *)
(* The URLs drawn contain no whitespace, no ';' and no ']'.                *)
(***************************************************************************)
S_http == <<"h", "t", "t", "p">>
S_https == <<"h", "t", "t", "p", "s">>
S_md == <<".", "m", "d">>
S_html == <<".", "h", "t", "m", "l">>

Range(s) == {s[i] : i \in 1..Len(s)}
Digits == {"0", "1", "2", "3", "4", "5", "6", "7", "8", "9"}
IsAlpha(c) == c \in Range(Uppers) \cup Range(Lowers)
SchemeChars == Range(Uppers) \cup Range(Lowers) \cup Digits \cup {"+", "-", "."}

\* The first position of s holding a character of cs, Len(s) + 1 when none does.
FindAny(s, cs) ==
    IF \E i \in 1..Len(s) : s[i] \in cs
    THEN CHOOSE i \in 1..Len(s) : s[i] \in cs /\ \A j \in 1..(i - 1) : s[j] \notin cs
    ELSE Len(s) + 1

\* The four cuts of urlsplit, each a pair <<part cut off, rest>>.
SplitScheme(u) ==
    LET i == Find(u, ":")
    IN  IF i > 1 /\ IsAlpha(u[1]) /\ \A k \in 1..(i - 1) : u[k] \in SchemeChars
        THEN <<Lower(SubSeq(u, 1, i - 1)), SubSeq(u, i + 1, Len(u))>>
        ELSE <<<<>>, u>>

SplitNetloc(rest) ==
    IF StartsWith(rest, <<"/", "/">>)
    THEN LET d == FindAny(SubSeq(rest, 3, Len(rest)), {"/", "?", "#"})
         IN  <<SubSeq(rest, 3, d + 1), SubSeq(rest, d + 2, Len(rest))>>
    ELSE <<<<>>, rest>>

\* rest.split(c, 1) when c is in rest: <<Optional part after c, part before c>>
SplitOff(rest, c) ==
    LET i == Find(rest, c)
    IN  IF i > 0
        THEN <<Some(SubSeq(rest, i + 1, Len(rest))), SubSeq(rest, 1, i - 1)>>
        ELSE <<None, rest>>

urlparse(u) ==
    Let(SplitScheme(u), LAMBDA a :
    Let(SplitNetloc(a[2]), LAMBDA b :
    Let(SplitOff(b[2], "#"), LAMBDA c :
    Let(SplitOff(c[2], "?"), LAMBDA d :
        [scheme |-> a[1], netloc |-> b[1], path |-> d[2],
         query |-> d[1], fragment |-> c[1]]))))

\* urlsplit raises ValueError("Invalid IPv6 URL") when the netloc holds one
\* of '[' and ']' without the other.
urlparse_raises(u) ==
    LET netloc == SplitNetloc(SplitScheme(u)[2])[1]
    IN  ("[" \in Range(netloc)) # ("]" \in Range(netloc))

validate_url(u) ==
    IF urlparse_raises(u)
    THEN \* except Exception as e
         Raise(ValidationError(MsgA("Invalid URL: ", u)))
    ELSE Let(urlparse(u), LAMBDA parsed :
        IF parsed.scheme \notin {S_http, S_https}
        THEN Raise(ValidationError(MsgA("URL must use http:// or https:// protocol: ", u)))
        ELSE IF parsed.netloc = <<>>
        THEN Raise(ValidationError(MsgA("Invalid URL format: ", u)))
        ELSE Ok(TRUE))

\* The classification that knows '/' only.
validate_output_path_slash_only(path) == EndsWith(path, <<"/">>)

\* path.endswith(("/", "\\"))
validate_output_path(path) == EndsWith(path, <<"/">>) \/ EndsWith(path, <<"\\">>)

\* re.sub(r'[/\\?#:*"<>|]', "-", s)
SpecialChars == {"/", "\\", "?", "#", ":", "*", "\"", "<", ">", "|"}
Sanitize(s) == [i \in 1..Len(s) |-> IF s[i] \in SpecialChars THEN "-" ELSE s[i]]

\* re.sub(r"-+", "-", s)
\* The runs of '-' left as they are.
CollapseHyphens_identity(s) == s

\* (computed on the two halves of s, which meet in one '-' when the left
\* half ends with one and the right half begins with one)
RECURSIVE CollapseHyphens(_)
CollapseHyphens(s) ==
    IF Len(s) < 2 THEN s
    ELSE Let(CollapseHyphens(SubSeq(s, 1, Len(s) \div 2)), LAMBDA left :
         Let(CollapseHyphens(SubSeq(s, Len(s) \div 2 + 1, Len(s))), LAMBDA right :
             IF left[Len(left)] = "-" /\ right[1] = "-"
             THEN left \o Tail(right)
             ELSE left \o right))

\* s.strip("-")
RECURSIVE StripHyphens(_)
StripHyphens(s) ==
    IF s = <<>> THEN s
    ELSE IF s[1] = "-" THEN StripHyphens(Tail(s))
    ELSE IF s[Len(s)] = "-" THEN StripHyphens(SubSeq(s, 1, Len(s) - 1))
    ELSE s

MaxBaseName == 200

\* The base name before truncation: last path segment or host, sanitized.
SanitizedBase(parsed) ==
    LET path_parts == NonEmpty(Split(parsed.path, "/"))
    IN  StripHyphens(CollapseHyphens(Sanitize(
            IF path_parts # <<>>
            THEN path_parts[Len(path_parts)]
            ELSE ReplaceChar(parsed.netloc, ".", "-"))))

\* The file name with the base left at its full length.
generate_filename_from_url_untruncated(u, format) ==
    SanitizedBase(urlparse(u)) \o (IF format = "html" THEN S_html ELSE S_md)

generate_filename_from_url(u, format) ==
    Let(urlparse(u), LAMBDA parsed :
    Let(SanitizedBase(parsed), LAMBDA base :
        LET base_name == IF Len(base) > MaxBaseName THEN Prefix(base, MaxBaseName) ELSE base
            extension == IF format = "markdown" THEN S_md
                         ELSE IF format = "html" THEN S_html
                         ELSE S_md
        IN  base_name \o extension))

(***************************************************************************)
(* pathlib.  A Path is its root flag and its parts; the separators are     *)
(* '/' on posix and '/' and '\' on nt.  Empty and '.' components are       *)
(* dropped, a trailing separator leaves no trace.  The paths drawn have    *)
(* no drive, no '..' and no leading double separator.                      *)
(***************************************************************************)
Seps == IF os_name = "nt" THEN {"/", "\\"} ELSE {"/"}
Sep == IF os_name = "nt" THEN "\\" ELSE "/"

RECURSIVE DropDots(_)
DropDots(parts) ==
    IF parts = <<>> THEN <<>>
    ELSE IF parts[1] = <<>> \/ parts[1] = <<".">> THEN DropDots(Tail(parts))
    ELSE <<parts[1]>> \o DropDots(Tail(parts))

\* Path(s)
Path(s) == [root |-> s # <<>> /\ s[1] \in Seps, parts |-> DropDots(SplitOn(s, Seps))]

\* str(p)
PathStr(p) ==
    IF p.parts = <<>> THEN (IF p.root THEN <<Sep>> ELSE <<".">>)
    ELSE (IF p.root THEN <<Sep>> ELSE <<>>) \o Join(p.parts, Sep)

\* p / s
PathJoin(p, s) ==
    LET q == Path(s)
    IN  IF q.root THEN q ELSE [root |-> p.root, parts |-> p.parts \o q.parts]

\* p.parent
Parent(p) ==
    IF p.parts = <<>> THEN p
    ELSE [root |-> p.root, parts |-> SubSeq(p.parts, 1, Len(p.parts) - 1)]

\* p.name, p.suffix, p.stem
PathName(p) == IF p.parts = <<>> THEN <<>> ELSE p.parts[Len(p.parts)]
PathSuffix(p) ==
    LET name == PathName(p)
        i == RFind(name, ".")
    IN  IF 1 < i /\ i < Len(name) THEN SubSeq(name, i, Len(name)) ELSE <<>>
\* The stem that keeps the suffix.
PathStem_with_suffix(p) == PathName(p)

PathStem(p) ==
    LET name == PathName(p)
        i == RFind(name, ".")
    IN  IF 1 < i /\ i < Len(name) THEN SubSeq(name, 1, i - 1) ELSE name

\* p.is_dir() on the disk d: the current directory and the root always exist
IsDir(d, p) == p.parts = <<>> \/ p \in d

\* The directories from the top down to p, p included.
Ancestors(p) == {[root |-> p.root, parts |-> SubSeq(p.parts, 1, n)] : n \in 1..Len(p.parts)}

(***************************************************************************)
(* OutputService (src/src/services/output.py) over the disk <<dirs,        *)
(* files>>.  io is the operating system's verdict on the call: "ok", or    *)
(* the step that it refuses (permissions, full disk).                      *)
(***************************************************************************)
IoOutcomes == {"ok", "mkdir_fails", "write_fails"}

\* The write that reports success when the operating system refuses it.
WriteText_silent(d, f, path, content, io) ==
    IF io = "ok" /\ ~IsDir(d \cup Ancestors(Parent(path)), path)
                 /\ ~\E a \in Ancestors(Parent(path)) : a \in DOMAIN f
    THEN [ok |-> TRUE, dirs |-> d \cup Ancestors(Parent(path)),
          files |-> [p \in DOMAIN f \cup {path} |-> IF p = path THEN content ELSE f[p]]]
    ELSE [ok |-> TRUE, dirs |-> d, files |-> [p \in DOMAIN f \cup {path} |-> <<>>]]

\* path.parent.mkdir(parents=True, exist_ok=True); path.write_text(content)
\* The result carries the disk as the call leaves it, also when it raises.
WriteText(d, f, path, content, io) ==
    LET blocked == \E a \in Ancestors(Parent(path)) : a \in DOMAIN f
        d2 == d \cup Ancestors(Parent(path))
    IN  IF io = "mkdir_fails" \/ blocked
        THEN [ok |-> FALSE, dirs |-> d, files |-> f,
              exc |-> Foreign("OSError", Msg("mkdir"))]
        ELSE IF io = "write_fails" \/ IsDir(d2, path)
        THEN [ok |-> FALSE, dirs |-> d2, files |-> f,
              exc |-> Foreign("OSError", Msg("write_text"))]
        ELSE [ok |-> TRUE, dirs |-> d2,
              files |-> [p \in DOMAIN f \cup {path} |-> IF p = path THEN content ELSE f[p]]]

\* OutputService.write_to_file(response, file_path)
write_to_file(d, f, resp, file_path, io) ==
    Let(Path(file_path), LAMBDA path :
    Let(WriteText(d, f, path, resp.content, io), LAMBDA w :
        IF w.ok THEN w
        ELSE [w EXCEPT !.exc = OutputError(Wrap("Failed to write output file: ",
                                                w.exc.message))]))

\* The content printed with no newline after it.
print_to_console_no_newline(resp) == [text |-> <<"">>, args |-> <<resp.content>>, end |-> ""]

\* OutputService.print_to_console(response)
print_to_console(resp) == Line(MsgA("", resp.content))

\* The text of the file at path
files_text(f, path) == f[path]

\* A character outside ASCII is written as its code point: "U+4E2D" is one
\* character, three bytes in UTF-8.
WideChar == "U+4E2D"

\* output_path.stat().st_size of a file holding text: its UTF-8 bytes, a
\* newline being written as two bytes on nt
st_size(text) ==
    Len(text) + 2 * Cardinality({i \in 1..Len(text) : text[i] = WideChar})
    + (IF os_name = "nt" THEN Cardinality({i \in 1..Len(text) : text[i] = "\n"}) ELSE 0)

\* save with the size counted in characters.
save_size_in_characters(d, f, content, output_path, io) ==
    Let(WriteText(d, f, output_path, content, io), LAMBDA w :
        IF w.ok
        THEN [ok |-> TRUE, dirs |-> w.dirs, files |-> w.files,
              value |-> [file_path |-> PathStr(output_path),
                         format |-> "markdown",
                         file_size |-> Len(content)]]
        ELSE [w EXCEPT !.exc = OutputError(Wrap("Failed to write output file: ",
                                                w.exc.message))])

\* OutputService.save(content, output_path)
save(d, f, content, output_path, io) ==
    Let(WriteText(d, f, output_path, content, io), LAMBDA w :
        IF w.ok
        THEN [ok |-> TRUE, dirs |-> w.dirs, files |-> w.files,
              value |-> [file_path |-> PathStr(output_path),
                         format |-> "markdown",
                         file_size |-> st_size(files_text(w.files, output_path))]]
        ELSE [w EXCEPT !.exc = OutputError(Wrap("Failed to write output file: ",
                                                w.exc.message))])

(***************************************************************************)
(* Settings (src/src/config/settings.py) and the request and response      *)
(* models (src/src/models/scrape.py).                                      *)
(***************************************************************************)
Settings(env) ==
    IF env.FIRECRAWL_API_URL = None
    THEN Raise(Foreign("PydanticValidationError",
                       Msg("1 validation error for Settings firecrawl_api_url Field required")))
    ELSE Ok([firecrawl_api_url |-> env.FIRECRAWL_API_URL[1],
             firecrawl_api_key |-> IF env.FIRECRAWL_API_KEY = None THEN <<>>
                                   ELSE env.FIRECRAWL_API_KEY[1],
             default_ai_model |-> env.DEFAULT_AI_MODEL,
             google_api_key |-> env.GOOGLE_API_KEY])

\* bool(x) of an Optional[str]: None and "" are false
Truthy(opt) == opt # None /\ opt[1] # <<>>

\* The first position of s holding a character outside cs, Len(s) + 1 when
\* none does.
FindNot(s, cs) == FindAny(s, Range(s) \ cs)

\* pydantic's HttpUrl reads a URL as the URL standard does: after the scheme
\* any number of '/' and '\' is passed over, the authority runs up to the
\* next '/', '\', '?' or '#', the host is what follows its last '@' up to
\* the ':' of the port.
HttpUrlParse(u) ==
    Let(SplitScheme(u), LAMBDA a :
    Let(SubSeq(a[2], FindNot(a[2], {"/", "\\"}), Len(a[2])), LAMBDA body :
    Let(FindAny(body, {"/", "\\", "?", "#"}), LAMBDA d :
    Let(SubSeq(body, 1, d - 1), LAMBDA authority :
    Let(SubSeq(authority, RFind(authority, "@") + 1, Len(authority)), LAMBDA hostport :
    Let(SplitOff(SubSeq(body, d, Len(body)), "#"), LAMBDA c :
    Let(SplitOff(c[2], "?"), LAMBDA q :
        [scheme |-> a[1], authority |-> authority,
         host |-> SubSeq(hostport, 1, FindAny(hostport, {":"}) - 1),
         path |-> q[2], query |-> q[1], fragment |-> c[1]])))))))

\* str(HttpUrl(u)): the host in lower case, an empty path written "/"
HttpUrlStr(u) ==
    Let(HttpUrlParse(u), LAMBDA parsed :
        parsed.scheme \o <<":", "/", "/">> \o Lower(parsed.authority)
        \o (IF parsed.path = <<>> THEN <<"/">> ELSE parsed.path)
        \o (IF parsed.query = None THEN <<>> ELSE <<"?">> \o parsed.query[1])
        \o (IF parsed.fragment = None THEN <<>> ELSE <<"#">> \o parsed.fragment[1]))

\* ScrapeRequest(url=u, format=format, output_path=output_path): the url
\* field is an HttpUrl, which wants an http or https scheme and a host.
ScrapeRequest(u, format, output_path) ==
    Let(HttpUrlParse(u), LAMBDA parsed :
        IF /\ parsed.scheme \in {S_http, S_https} /\ parsed.host # <<>>
           /\ Range(parsed.host) \cap {"[", "]"} = {}
        THEN Ok([url |-> HttpUrlStr(u), format |-> format, output_path |-> output_path])
        ELSE Raise(Foreign("PydanticValidationError",
                           MsgA("1 validation error for ScrapeRequest url ", u))))

\* The model with no validator.
ScrapeResponse_unvalidated(content, format, metadata, success, error_message) ==
    Ok([content |-> content, format |-> format, metadata |-> metadata,
        success |-> success, error_message |-> error_message])

\* ScrapeResponse(...) with its model validator validate_error_message
ScrapeResponse(content, format, metadata, success, error_message) ==
    IF ~success /\ error_message = None
    THEN Raise(Foreign("PydanticValidationError",
                       Msg("error_message required when success=False")))
    ELSE Ok([content |-> content, format |-> format, metadata |-> metadata,
             success |-> success, error_message |-> error_message])

(***************************************************************************)
(* FirecrawlService (src/src/services/firecrawl.py).  The provider's       *)
(* answer to one extraction call is an outcome: a payload returned, as a   *)
(* dict or as an object, or an exception raised with some text.            *)
(***************************************************************************)
S_429 == <<"4", "2", "9">>
S_rate_limit == <<"r", "a", "t", "e", " ", "l", "i", "m", "i", "t">>
S_dummy_key == <<"d", "u", "m", "m", "y", "-", "k", "e", "y", "-", "f", "o", "r", "-",
                 "s", "e", "l", "f", "-", "h", "o", "s", "t", "e", "d">>

Returned(payload) == [kind |-> "return", result |-> payload]
Raised(cls, text) == [kind |-> "raise", exc |-> Foreign(cls, MsgA("", text))]

\* FirecrawlService.__init__: the api key handed to the client
client_api_key(s) == IF s.firecrawl_api_key # <<>> THEN s.firecrawl_api_key ELSE S_dummy_key

\* The except clause matching the indicator in lower case only.
FirecrawlService_scrape_except_case_sensitive(e) ==
    IF Contains(ErrorStr(e), S_429) \/ Contains(ErrorStr(e), S_rate_limit)
    THEN RateLimitError(Msg("Firecrawl API rate limit exceeded"))
    ELSE FirecrawlApiError(Wrap("Failed to scrape URL: ", e.message))

\* The except clause of FirecrawlService.scrape
FirecrawlService_scrape_except(e) ==
    LET error_str == ErrorStr(e)
    IN  IF Contains(error_str, S_429) \/ Contains(Lower(error_str), S_rate_limit)
        THEN RateLimitError(Msg("Firecrawl API rate limit exceeded"))
        ELSE FirecrawlApiError(Wrap("Failed to scrape URL: ", e.message))

\* The provider's payload and its metadata are each a dict or an object
\* (shape); a key or an attribute that is absent is None.
\* hasattr(x, "__dict__"): true of an object, false of a dict
HasDict(x) == x.shape = "object"

\* o.__dict__: the attributes of an object, as a dict
DictOf(o) == [o EXCEPT !.shape = "dict"]

\* d.get(name, default)
DictGet(d, name, default) == IF d[name] = None THEN default ELSE d[name]

\* getattr(o, name, default)
GetAttr(o, name, default) == IF o[name] = None THEN default ELSE o[name]

\* isinstance(x, dict)
IsDict(x) == x.shape = "dict"

\* ScrapeMetadata built from metadata_dict (scraped_at, the clock, left out)
BuildMetadata(metadata_dict, request) ==
    [title |-> IF IsDict(metadata_dict) THEN DictGet(metadata_dict, "title", None)
               ELSE GetAttr(metadata_dict, "title", None),
     description |-> IF IsDict(metadata_dict) THEN DictGet(metadata_dict, "description", None)
                     ELSE GetAttr(metadata_dict, "description", None),
     keywords |-> IF IsDict(metadata_dict) THEN DictGet(metadata_dict, "keywords", None)
                  ELSE GetAttr(metadata_dict, "keywords", None),
     source_url |-> IF IsDict(metadata_dict)
                    THEN DictGet(metadata_dict, "sourceURL", Some(request.url))[1]
                    ELSE GetAttr(metadata_dict, "sourceURL", Some(request.url))[1]]

\* {}
NoMetadata ==
    [shape |-> "dict", title |-> None, description |-> None, keywords |-> None,
     sourceURL |-> None]

\* The object branch: metadata_obj.__dict__ if hasattr(metadata_obj,
\* "__dict__") else {}
ObjectMetadata(result) ==
    IF GetAttr(result, "metadata", None) = None THEN NoMetadata
    ELSE IF HasDict(GetAttr(result, "metadata", None)[1])
    THEN DictOf(GetAttr(result, "metadata", None)[1])
    ELSE NoMetadata

\* The dict branch: result.get("metadata", {})
DictMetadata(result) == DictGet(result, "metadata", Some(NoMetadata))[1]

\* FirecrawlService.scrape(request) when the provider answers with outcome
FirecrawlService_scrape(request, outcome) ==
    IF outcome.kind = "raise" THEN Raise(FirecrawlService_scrape_except(outcome.exc))
    ELSE LET result == outcome.result
             content == IF HasDict(result)
                        THEN IF request.format = "markdown"
                             THEN GetAttr(result, "markdown", Some(<<>>))[1]
                             ELSE GetAttr(result, "html", Some(<<>>))[1]
                        ELSE IF request.format = "markdown"
                             THEN DictGet(result, "markdown", Some(<<>>))[1]
                             ELSE DictGet(result, "html", Some(<<>>))[1]
             metadata_dict == IF HasDict(result) THEN ObjectMetadata(result)
                              ELSE DictMetadata(result)
         IN  Let(ScrapeResponse(content, request.format,
                                BuildMetadata(metadata_dict, request), TRUE, None),
                 LAMBDA built :
                     IF built.ok THEN built
                     ELSE Raise(FirecrawlService_scrape_except(built.exc)))

(***************************************************************************)
(* ArticleContent (src/src/models/article_content.py) and                  *)
(* FirecrawlService.scrape_to_article_content.                             *)
(***************************************************************************)
Whitespace == {" ", "\t", "\n", "\r"}

\* len(s.split()): the maximal runs of characters that are not whitespace
WordCount(s) ==
    Cardinality({i \in 1..Len(s) :
                    s[i] \notin Whitespace /\ (i = 1 \/ s[i - 1] \in Whitespace)})

MinimalWords == 100

\* The property with the limit itself counted as minimal.
is_minimal_inclusive(a) == a.word_count <= MinimalWords

\* ArticleContent.is_minimal
is_minimal(a) == a.word_count < MinimalWords

\* url.split("/")[-1]
LastSegment(u) == LET parts == Split(u, "/") IN parts[Len(parts)]

\* The ArticleContent built from the ScrapeResponse result (the clock left out)
ArticleContent(u, result) ==
    [url |-> HttpUrlStr(u),
     title |-> IF Truthy(result.metadata.title) THEN result.metadata.title[1]
               ELSE LastSegment(u),
     markdown |-> result.content,
     word_count |-> WordCount(result.content),
     detected_language |-> None,
     metadata |-> [source_url |-> result.metadata.source_url,
                   description |-> result.metadata.description,
                   keywords |-> result.metadata.keywords]]

\* FirecrawlService.scrape_to_article_content(url) when the provider answers
\* with outcome; called is whether the extraction call was issued
scrape_to_article_content(u, outcome) ==
    Let(ScrapeRequest(u, "markdown", None), LAMBDA request :
        IF ~request.ok THEN [ok |-> FALSE, exc |-> request.exc, called |-> FALSE]
        ELSE Let(FirecrawlService_scrape(request.value, outcome), LAMBDA result :
                 IF ~result.ok THEN [ok |-> FALSE, exc |-> result.exc, called |-> TRUE]
                 ELSE [ok |-> TRUE, value |-> ArticleContent(u, result.value),
                       called |-> TRUE]))

(***************************************************************************)
(* AIService (src/src/services/ai_service.py).  The completion provider's  *)
(* answer is an outcome: a response returned, or one of LiteLLM's          *)
(* exceptions raised with some text.                                       *)
(***************************************************************************)
S_model == <<"m", "o", "d", "e", "l">>
S_not_found == <<"n", "o", "t", " ", "f", "o", "u", "n", "d">>

\* AIService._get_system_prompt: the prompt constant chosen
get_system_prompt(length) ==
    CASE length = "brief" -> "BRIEF_PROMPT"
      [] length = "standard" -> "STANDARD_PROMPT"
      [] length = "detailed" -> "DETAILED_PROMPT"
      [] OTHER -> "STANDARD_PROMPT"

\* The budget of the standard mode for every mode.
get_max_tokens_standard(length) == 300

\* AIService._get_max_tokens
get_max_tokens(length) ==
    CASE length = "brief" -> 100
      [] length = "standard" -> 300
      [] length = "detailed" -> 600
      [] OTHER -> 300

\* The arguments of litellm.completion, and the provider's answer.
CompletionCall(a, config, summary_length, outcome) ==
    [op |-> "complete", model |-> config.full_name,
     messages |-> <<[role |-> "system", content |-> get_system_prompt(summary_length)],
                    [role |-> "user", content |-> a.markdown]>>,
     temperature |-> "0.3",
     max_tokens |-> get_max_tokens(summary_length),
     answer |-> outcome]

\* The literal pieces of the message of the context-window failure, as
\* characters.
S_too_long_for ==
    <<"A", "r", "t", "i", "c", "l", "e", " ", "i", "s", " ", "t", "o", "o",
      " ", "l", "o", "n", "g", " ", "f", "o", "r", " ">>
S_context_window_hint ==
    <<" ", "c", "o", "n", "t", "e", "x", "t", " ", "w", "i", "n", "d", "o",
      "w", ".", " ", "T", "r", "y", " ", "u", "s", "i", "n", "g", " ", "'",
      "b", "r", "i", "e", "f", "'", " ", "s", "u", "m", "m", "a", "r", "y",
      " ", "m", "o", "d", "e", " ", "o", "r", " ", "a", " ", "m", "o", "d",
      "e", "l", " ", "w", "i", "t", "h", " ", "l", "a", "r", "g", "e", "r",
      " ", "c", "o", "n", "t", "e", "x", "t", ".">>

\* The except clauses of AIService.summarize, in the order of the source
AIService_summarize_except(e, a, config) ==
    IF IsInstance(e, "LiteLLMAuthError")
    THEN WithDetails(
             AIServiceError(Fmt(<<"Missing or invalid API key for ", ". Please set ",
                                  " in your .env file.">>,
                                <<config.provider, config.api_key_env_var>>), 2),
             <<<<"provider", config.provider>>, <<"model", config.full_name>>>>)
    ELSE IF IsInstance(e, "LiteLLMRateLimitError")
    THEN WithDetails(
             RateLimitExceededError(Fmt(<<"Rate limit exceeded for ",
                                          ". Please try again later.">>,
                                        <<config.provider>>)),
             <<<<"provider", config.provider>>, <<"model", config.full_name>>>>)
    ELSE IF IsInstance(e, "LiteLLMContextError")
    THEN WithDetails(
             TokenLimitExceededError(
                 Fmt(<<S_too_long_for, S_context_window_hint>>, <<config.full_name>>)),
             <<<<"model", config.full_name>>, <<"article_word_count", a.word_count>>>>)
    ELSE IF IsInstance(e, "LiteLLMBadRequestError")
    THEN IF Contains(Lower(ErrorStr(e)), S_model) \/ Contains(Lower(ErrorStr(e)), S_not_found)
         THEN WithDetails(
                  ModelNotFoundError(Fmt(<<"Model '", "' not found or not supported.">>,
                                         <<config.full_name>>)),
                  <<<<"model", config.full_name>>, <<"provider", config.provider>>>>)
         ELSE WithDetails(
                  AIServiceError(Wrap("Invalid request to AI service: ", e.message), 3),
                  <<<<"model", config.full_name>>>>)
    ELSE IF IsInstance(e, "LiteLLMTimeout") \/ IsInstance(e, "LiteLLMConnectionError")
    THEN WithDetails(
             AIServiceError(Fmt(<<"Network error connecting to ",
                                  ". Please check your connection.">>,
                                <<config.provider>>), 3),
             <<<<"provider", config.provider>>, <<"error", ErrorStr(e)>>>>)
    ELSE WithDetails(
             AIServiceError(Wrap("Unexpected error during summarization: ", e.message), 3),
             <<<<"model", config.full_name>>, <<"error_type", e.cls>>>>)

\* AISummary(...): summary_text must be a str (the clock left out)
AISummary(summary_text, output_language, length_mode, model_used, token_usage, source_url, source_title) ==
    IF summary_text = None
    THEN Raise(Foreign("PydanticValidationError",
                       Msg("1 validation error for AISummary summary_text")))
    ELSE Ok([summary_text |-> summary_text[1], output_language |-> output_language,
             length_mode |-> length_mode, model_used |-> model_used,
             token_usage |-> token_usage, source_url |-> source_url,
             source_title |-> source_title])

\* AIService.summarize(article, config, summary_length) when the completion
\* provider answers with outcome
AIService_summarize(a, config, summary_length, outcome) ==
    IF outcome.kind = "raise"
    THEN Raise(AIService_summarize_except(outcome.exc, a, config))
    ELSE Let(AISummary(outcome.result.content, a.detected_language, summary_length,
                       config.full_name, outcome.result.usage, a.url, a.title),
             LAMBDA built :
                 IF built.ok THEN built
                 ELSE Raise(AIService_summarize_except(built.exc, a, config)))

(***************************************************************************)
(* The inputs drawn by the command-level specification: command lines,     *)
(* the disk before the run, and the provider's answers.                    *)
(***************************************************************************)
U_page == <<"h", "t", "t", "p", "s", ":", "/", "/", "a", ".", "i", "o", "/", "p", "/", "b", "-", "n">>
U_root == <<"h", "t", "t", "p", "s", ":", "/", "/", "a", ".", "i", "o", "/">>
U_bare == <<"h", "t", "t", "p", "s", ":", "/", "/", "a", ".", "i", "o">>
U_query == <<"h", "t", "t", "p", "s", ":", "/", "/", "a", ".", "i", "o", "/", "p", "?", "q", "#", "f">>
U_noscheme == <<"a", ".", "i", "o", "/", "p">>
U_ftp == <<"f", "t", "p", ":", "/", "/", "a", ".", "i", "o", "/", "p">>
U_nohost == <<"h", "t", "t", "p", ":", "/", "/", "/", "p">>
Urls == {U_page, U_root, U_bare, U_query, U_noscheme, U_ftp, U_nohost}

P_dir == <<"o", "u", "t", "/">>
P_dir_backslash == <<"o", "u", "t", "\\">>
P_out == <<"o", "u", "t">>
P_file == <<"o", ".", "m", "d">>
P_nested == <<"o", "u", "t", "/", "r", ".", "m", "d">>
Outputs == {None, Some(<<>>), Some(P_dir), Some(P_dir_backslash), Some(P_out),
            Some(P_file), Some(P_nested)}

S_api_url == <<"h", "t", "t", "p", ":", "/", "/", "f", "c">>
S_key == <<"k", "1">>

\* The directories on disk before the command runs.
InitialDirs == {{}, {[root |-> FALSE, parts |-> <<P_out>>]}}

T_doc == <<"M", "y", " ", "D", "o", "c">>
C_markdown == <<"#", " ", "T">>
C_html == <<"<", "p", ">">>
E_429 == <<"H", "T", "T", "P", " ", "4", "2", "9">>
E_rate == <<"R", "a", "t", "e", " ", "L", "i", "m", "i", "t">>
E_boom == <<"b", "o", "o", "m">>

Titles == {None, Some(T_doc)}

\* A text of n words
Words(n) == [i \in 1..(2 * n - 1) |-> IF i % 2 = 1 THEN "w" ELSE " "]
\* The lengths, in words, of the long articles returned: either side of
\* the limit of is_minimal
ArticleLengths == {99, 100}

\* The titles of the long articles: one that begins with '/', one with a
\* '/' inside.
T_rooted == <<"/", "T">>
T_nested == <<"A", "/", "B", " ", "c">>
LongTitle(n) == IF n = 99 THEN T_rooted ELSE T_nested

Payloads ==
    {[shape |-> sh, markdown |-> Some(C_markdown), html |-> Some(C_html),
      metadata |-> Some([shape |-> sh, title |-> t, description |-> None,
                         keywords |-> None, sourceURL |-> None])] :
        sh \in {"dict", "object"}, t \in Titles}
    \cup {[shape |-> "dict", markdown |-> Some(Words(n)), html |-> Some(C_html),
           metadata |-> Some([shape |-> "dict", title |-> Some(LongTitle(n)),
                              description |-> None, keywords |-> None,
                              sourceURL |-> None])] :
              n \in ArticleLengths}

ExtractOutcomes ==
    {Returned(p) : p \in Payloads} \cup {Raised("Exception", t) : t \in {E_429, E_rate, E_boom}}

M_gemini_pro == S_gemini \o <<"/">> \o S_pro
M_openai_pro == S_openai \o <<"/">> \o S_pro
M_Gemini_pro == S_Gemini \o <<"/">> \o S_pro
Models == {None, Some(M_gemini_pro), Some(M_openai_pro), Some(S_gemini)}
DefaultModels == {None, Some(M_gemini_pro), Some(M_Gemini_pro)}

\* --summary is a plain str option: any text can be given
SummaryLengths == {"brief", "standard", "detailed", "BRIEF"}

C_summary == <<"S", "u", "m">>
E_model == <<"N", "o", " ", "M", "o", "d", "e", "l">>
E_not_found == <<"N", "o", "t", " ", "F", "o", "u", "n", "d">>

LiteLLMErrors == {"LiteLLMAuthError", "LiteLLMRateLimitError", "LiteLLMContextError",
                  "LiteLLMBadRequestError", "LiteLLMTimeout", "LiteLLMConnectionError",
                  "Exception"}

\* The completion provider's answers.
CompletionOutcomes ==
    {Returned([content |-> c,
               usage |-> Some([prompt_tokens |-> 7, completion_tokens |-> 3,
                               total_tokens |-> 10])]) :
        c \in {None, Some(C_summary)}}
    \cup {Raised(cls, t) : cls \in LiteLLMErrors, t \in {E_boom, E_model, E_not_found}}

(***************************************************************************)
(* The scrape command (src/src/cli/scrape.py).  The handler is run in      *)
(* three steps: everything up to the construction of the request, the      *)
(* extraction call, and the output.                                        *)
(***************************************************************************)
\* The handler ends: the lines go to the error stream, the process exits.
Terminate(lines, code, e) ==
    /\ stderr' = stderr \o lines
    /\ exit_code' = Some(code)
    /\ caught' = e
    /\ pc' = "done"

\* typer.Exit(code): click's Exit, a RuntimeError; str(Exit(2)) is "2"
Exit(code) == Foreign("Exit", Msg(IF code = 2 THEN "2" ELSE "1"))

\* The except clauses of scrape, every one leaving with code 1.
scrape_except_code_1(e) == [line |-> Line(Wrap("Error: ", e.message)), code |-> 1]

\* The except clauses of scrape: the line printed and the code of typer.Exit
scrape_except(e) ==
    IF IsInstance(e, "ValidationError")
    THEN [line |-> Line(Wrap("Error: ", e.message)), code |-> e.code]
    ELSE IF IsInstance(e, "CrawlerError")
    THEN [line |-> Line(Wrap("Error: ", e.message)), code |-> e.code]
    ELSE [line |-> Line(Wrap("Error: ", e.message)), code |-> 1]

format_choice == IF html THEN "html" ELSE "markdown"

is_directory == IF Truthy(output) THEN validate_output_path(output[1]) ELSE FALSE

\* scrape, lines 33-61: validate the URL, classify the output, load the
\* settings, build the request
scrape_Prepare ==
    /\ cmd = "scrape" /\ pc = "start"
    /\ \E valid \in {validate_url(url)}, loaded \in {Settings(environ)},
          request \in {ScrapeRequest(url, format_choice, output)} :
         IF ~valid.ok
         THEN \E h \in {scrape_except(valid.exc)} :
                /\ Terminate(<<h.line>>, h.code, Some(valid.exc))
                /\ UNCHANGED settings
         ELSE IF ~loaded.ok
         THEN \* raise typer.Exit(2) inside the try block: the handler's own
              \* except Exception clause catches it
              \E h \in {scrape_except(Exit(2))} :
                /\ Terminate(<<Line(Wrap("Error: Missing required configuration: ",
                                         loaded.exc.message)),
                               h.line>>, h.code, Some(Exit(2)))
                /\ UNCHANGED settings
         ELSE IF ~request.ok
         THEN \E h \in {scrape_except(request.exc)} :
                /\ Terminate(<<h.line>>, h.code, Some(request.exc))
                /\ UNCHANGED settings
         ELSE /\ settings' = Some(loaded.value)
              /\ pc' = "call"
              /\ UNCHANGED <<stderr, exit_code, caught>>
    /\ UNCHANGED <<cliVars, envVars, diskVars, model_config, response, article,
                   summary_result, stdout, trace, fnVars>>

\* The extraction call as the provider sees it, and the provider's answer.
ExtractCall(s, request, outcome) ==
    [op |-> "extract", api_url |-> s.firecrawl_api_url, api_key |-> client_api_key(s),
     url |-> request.url, formats |-> <<"markdown", "html">>, answer |-> outcome]

\* scrape, lines 63-65: FirecrawlService(settings).scrape(request)
scrape_Extract ==
    /\ cmd = "scrape" /\ pc = "call"
    /\ \E outcome \in ExtractOutcomes :
       \E request \in {ScrapeRequest(url, format_choice, output).value} :
       \E got \in {FirecrawlService_scrape(request, outcome)} :
         /\ trace' = Append(trace, ExtractCall(settings[1], request, outcome))
         /\ IF got.ok
            THEN /\ response' = Some(got.value)
                 /\ pc' = "output"
                 /\ UNCHANGED <<stderr, exit_code, caught>>
            ELSE \E h \in {scrape_except(got.exc)} :
                   /\ Terminate(<<h.line>>, h.code, Some(got.exc))
                   /\ UNCHANGED response
    /\ UNCHANGED <<cliVars, envVars, diskVars, settings, model_config, article,
                   summary_result, stdout, fnVars>>

\* A write as the disk sees it.
WriteEvent(path, content, ok) == [op |-> "write", path |-> path, content |-> content, ok |-> ok]

\* scrape, lines 67-83: write the content to the file or print it (the
\* check mark that opens the status lines is left out)
scrape_Output ==
    /\ cmd = "scrape" /\ pc = "output"
    /\ IF Truthy(output)
       THEN \E io \in IoOutcomes :
            \E final_path \in {IF is_directory
                               THEN PathStr(PathJoin(Path(output[1]),
                                       generate_filename_from_url(url, format_choice)))
                               ELSE output[1]} :
            \E w \in {write_to_file(dirs, files, response[1], final_path, io)} :
              /\ dirs' = w.dirs
              /\ files' = w.files
              /\ trace' = Append(trace, WriteEvent(Path(final_path), response[1].content, w.ok))
              /\ stdout' = stdout
              /\ IF w.ok
                 THEN Terminate(<<Line(MsgA("Content saved to: ", final_path)),
                                  Line(MsgA("Scraped: ", url))>>, 0, None)
                 ELSE \E h \in {scrape_except(w.exc)} :
                        Terminate(<<h.line>>, h.code, Some(w.exc))
       ELSE /\ stdout' = Append(stdout, print_to_console(response[1]))
            /\ Terminate(<<Line(MsgA("Scraped: ", url))>>, 0, None)
            /\ UNCHANGED <<dirs, files, trace>>
    /\ UNCHANGED <<cliVars, envVars, localVars, fnVars>>

(***************************************************************************)
(* The summarize command (src/src/cli/summarize.py).  The handler is run   *)
(* in four steps: the configuration gate, the crawl, the completion and    *)
(* the output.                                                             *)
(***************************************************************************)
S_summary == <<"-", "s", "u", "m", "m", "a", "r", "y">>
TitleBaseLen == 50

\* print the details of the exception when it carries any
DetailsLine(e) == IF e.details # <<>> THEN <<Line(MsgA("Details: ", e.details))>> ELSE <<>>

\* The except clauses of summarize: the lines printed and the code of sys.exit
summarize_except(e) ==
    IF IsInstance(e, "ConfigurationError")
    THEN [lines |-> <<Line(Wrap("Configuration Error: ", e.message))>> \o DetailsLine(e),
          code |-> e.code]
    ELSE IF IsInstance(e, "AIServiceError")
    THEN [lines |-> <<Line(Wrap("AI Service Error: ", e.message))>> \o DetailsLine(e),
          code |-> e.code]
    ELSE IF IsInstance(e, "CrawlerError")
    THEN [lines |-> <<Line(Wrap("Error: ", e.message))>> \o DetailsLine(e),
          code |-> e.code]
    ELSE [lines |-> <<Line(Wrap("Unexpected error: ", e.message))>>, code |-> 1]

\* An exception reaches the except clauses of summarize.
SysExit(e) == \E h \in {summarize_except(e)} : Terminate(h.lines, h.code, Some(e))

\* summarize, lines 40-67: the settings, the model selected, the provider
\* and the key checks
summarize_gate(env, m) ==
    Let(Settings(env), LAMBDA loaded :
    IF ~loaded.ok THEN loaded
    ELSE Let(IF Truthy(m) THEN m ELSE loaded.value.default_ai_model, LAMBDA selected_model :
    IF ~Truthy(selected_model)
    THEN Raise(WithDetails(
             ConfigurationError(Msg("No AI model specified. Either provide --model parameter or set DEFAULT_AI_MODEL in .env file.")),
             <<<<"missing_env", "DEFAULT_AI_MODEL">>>>))
    ELSE Let(from_model_string(selected_model[1]), LAMBDA parsed :
    IF ~parsed.ok THEN parsed
    ELSE IF parsed.value.provider # S_gemini
    THEN Raise(WithDetails(
             ConfigurationError(Fmt(<<"Only Gemini models are supported in this version. Support for ",
                                      " coming soon in P2.">>,
                                    <<parsed.value.provider>>)),
             <<<<"provider", parsed.value.provider>>>>))
    ELSE IF /\ ~parsed.value.is_local
            /\ parsed.value.api_key_env_var = Some("GOOGLE_API_KEY")
            /\ ~Truthy(loaded.value.google_api_key)
    THEN Raise(WithDetails(
             ConfigurationError(Fmt(<<"Missing API key: ", " not set in .env file.">>,
                                    <<parsed.value.api_key_env_var[1]>>)),
             <<<<"missing_env", parsed.value.api_key_env_var[1]>>>>))
    ELSE Ok([settings |-> loaded.value, model_config |-> parsed.value,
             selected_model |-> selected_model[1]]))))

\* summarize, lines 38-70
summarize_Configure ==
    /\ cmd = "summarize" /\ pc = "start"
    /\ \E gate \in {summarize_gate(environ, model)} :
         IF gate.ok
         THEN /\ settings' = Some(gate.value.settings)
              /\ model_config' = Some(gate.value.model_config)
              /\ stdout' = stdout \o <<Line(MsgA("Summarizing: ", url)),
                                       Line(MsgA("Using model: ", gate.value.selected_model))>>
              /\ pc' = "crawl"
              /\ UNCHANGED <<stderr, exit_code, caught>>
         ELSE /\ SysExit(gate.exc)
              /\ UNCHANGED <<settings, model_config, stdout>>
    /\ UNCHANGED <<cliVars, envVars, diskVars, response, article, summary_result,
                   trace, fnVars>>

\* summarize, lines 72-85: crawl the article, warn when it is very short
summarize_Crawl ==
    /\ cmd = "summarize" /\ pc = "crawl"
    /\ \E outcome \in ExtractOutcomes :
       \E got \in {scrape_to_article_content(url, outcome)} :
         /\ trace' = IF got.called
                     THEN Append(trace, ExtractCall(settings[1],
                                        ScrapeRequest(url, "markdown", None).value, outcome))
                     ELSE trace
         /\ IF got.ok
            THEN /\ article' = Some(got.value)
                 /\ stdout' = stdout
                        \o <<Line(Fmt(<<"Crawled article: ", " (", " words)">>,
                                      <<got.value.title, got.value.word_count>>))>>
                        \o (IF is_minimal(got.value)
                            THEN <<Line(Fmt(<<"Warning: Article is very short (",
                                              " words). Summary may not be meaningful.">>,
                                            <<got.value.word_count>>))>>
                            ELSE <<>>)
                 /\ pc' = "ai"
                 /\ UNCHANGED <<stderr, exit_code, caught>>
            ELSE /\ SysExit(got.exc)
                 /\ UNCHANGED <<article, stdout>>
    /\ UNCHANGED <<cliVars, envVars, diskVars, settings, model_config, response,
                   summary_result, fnVars>>

\* summarize, lines 87-89: AIService().summarize(article, model_config, summary)
summarize_AI ==
    /\ cmd = "summarize" /\ pc = "ai"
    /\ \E outcome \in CompletionOutcomes :
       \E got \in {AIService_summarize(article[1], model_config[1], summary, outcome)} :
         /\ trace' = Append(trace, CompletionCall(article[1], model_config[1], summary, outcome))
         /\ IF got.ok
            THEN /\ summary_result' = Some(got.value)
                 /\ pc' = "output"
                 /\ UNCHANGED <<stderr, exit_code, caught>>
            ELSE /\ SysExit(got.exc)
                 /\ UNCHANGED summary_result
    /\ UNCHANGED <<cliVars, envVars, diskVars, settings, model_config, response,
                   article, stdout, fnVars>>

\* summarize, lines 94-125: the files to save, in the order of the calls,
\* each with the text of the line that reports it
summarize_saves(d, out, save_orig, a, sr) ==
    Let(Path(out), LAMBDA output_path :
        IF save_orig
        THEN IF \/ IsDir(d, output_path)
                \/ EndsWith(PathStr(output_path), <<"/">>)
                \/ EndsWith(PathStr(output_path), <<"\\">>)
             THEN Let(Prefix(Lower(ReplaceChar(a.title, " ", "-")), TitleBaseLen),
                      LAMBDA base_name :
                  <<[label |-> "\nOriginal saved to: ", content |-> a.markdown,
                     path |-> PathJoin(output_path, base_name \o S_md)],
                    [label |-> "Summary saved to: ", content |-> sr.summary_text,
                     path |-> PathJoin(output_path, base_name \o S_summary \o S_md)]>>)
             ELSE <<[label |-> "\nOriginal saved to: ", content |-> a.markdown,
                     path |-> output_path],
                    [label |-> "Summary saved to: ", content |-> sr.summary_text,
                     path |-> PathJoin(Parent(output_path),
                                       PathStem(output_path) \o S_summary
                                           \o PathSuffix(output_path))]>>
        ELSE <<[label |-> "\nSummary saved to: ", content |-> sr.summary_text,
                path |-> output_path]>>)

\* The calls of save with the second made although the first raised.
SaveAll_continues(d, f, saves, io) ==
    Let(save(d, f, saves[1].content, saves[1].path, io[1]), LAMBDA first :
        IF Len(saves) = 1
        THEN IF first.ok
             THEN [ok |-> TRUE, dirs |-> first.dirs, files |-> first.files,
                   lines |-> <<Line(MsgA(saves[1].label, first.value.file_path))>>,
                   events |-> <<WriteEvent(saves[1].path, saves[1].content, TRUE)>>]
             ELSE [ok |-> FALSE, dirs |-> first.dirs, files |-> first.files,
                   exc |-> first.exc,
                   events |-> <<WriteEvent(saves[1].path, saves[1].content, FALSE)>>]
        ELSE Let(save(first.dirs, first.files, saves[2].content, saves[2].path, io[2]),
                 LAMBDA second :
                 IF first.ok /\ second.ok
                 THEN [ok |-> TRUE, dirs |-> second.dirs, files |-> second.files,
                       lines |-> <<Line(MsgA(saves[1].label, first.value.file_path)),
                                   Line(MsgA(saves[2].label, second.value.file_path))>>,
                       events |-> <<WriteEvent(saves[1].path, saves[1].content, TRUE),
                                    WriteEvent(saves[2].path, saves[2].content, TRUE)>>]
                 ELSE [ok |-> FALSE, dirs |-> second.dirs, files |-> second.files,
                       exc |-> IF first.ok THEN second.exc ELSE first.exc,
                       events |-> <<WriteEvent(saves[1].path, saves[1].content, first.ok),
                                    WriteEvent(saves[2].path, saves[2].content, second.ok)>>]))

\* The calls of OutputService.save in order, up to the first that raises;
\* io[k] is the operating system's verdict on the k-th call.
SaveAll(d, f, saves, io) ==
    Let(save(d, f, saves[1].content, saves[1].path, io[1]), LAMBDA first :
        IF ~first.ok
        THEN [ok |-> FALSE, dirs |-> first.dirs, files |-> first.files, exc |-> first.exc,
              events |-> <<WriteEvent(saves[1].path, saves[1].content, FALSE)>>]
        ELSE IF Len(saves) = 1
        THEN [ok |-> TRUE, dirs |-> first.dirs, files |-> first.files,
              lines |-> <<Line(MsgA(saves[1].label, first.value.file_path))>>,
              events |-> <<WriteEvent(saves[1].path, saves[1].content, TRUE)>>]
        ELSE Let(save(first.dirs, first.files, saves[2].content, saves[2].path, io[2]),
                 LAMBDA second :
                 IF ~second.ok
                 THEN [ok |-> FALSE, dirs |-> second.dirs, files |-> second.files,
                       exc |-> second.exc,
                       events |-> <<WriteEvent(saves[1].path, saves[1].content, TRUE),
                                    WriteEvent(saves[2].path, saves[2].content, FALSE)>>]
                 ELSE [ok |-> TRUE, dirs |-> second.dirs, files |-> second.files,
                       lines |-> <<Line(MsgA(saves[1].label, first.value.file_path)),
                                   Line(MsgA(saves[2].label, second.value.file_path))>>,
                       events |-> <<WriteEvent(saves[1].path, saves[1].content, TRUE),
                                    WriteEvent(saves[2].path, saves[2].content, TRUE)>>]))

\* "=" * 60
Rule == "============================================================"

\* summarize, lines 134-140
TokensLine(sr) ==
    IF sr.token_usage # None
    THEN <<Line(Fmt(<<"\nTokens used: ", " (prompt: ", ", completion: ", ")">>,
                    <<sr.token_usage[1].total_tokens, sr.token_usage[1].prompt_tokens,
                      sr.token_usage[1].completion_tokens>>))>>
    ELSE <<>>

\* summarize, lines 91-142: save the files or print the summary, sys.exit(0)
summarize_Output ==
    /\ cmd = "summarize" /\ pc = "output"
    /\ IF Truthy(output)
       THEN \E saves \in {summarize_saves(dirs, output[1], save_original, article[1],
                                          summary_result[1])} :
            \E io \in [1..Len(saves) -> IoOutcomes] :
            \E run \in {SaveAll(dirs, files, saves, io)} :
              /\ dirs' = run.dirs
              /\ files' = run.files
              /\ trace' = trace \o run.events
              /\ IF run.ok
                 THEN /\ stdout' = stdout \o run.lines \o TokensLine(summary_result[1])
                      /\ Terminate(<<>>, 0, None)
                 ELSE /\ stdout' = stdout
                      /\ SysExit(run.exc)
       ELSE /\ stdout' = stdout
                 \o <<Line(Msg("\n" \o Rule)), Line(Msg("SUMMARY")), Line(Msg(Rule)),
                      Line(MsgA("", summary_result[1].summary_text)), Line(Msg(Rule))>>
                 \o TokensLine(summary_result[1])
            /\ Terminate(<<>>, 0, None)
            /\ UNCHANGED <<dirs, files, trace>>
    /\ UNCHANGED <<cliVars, envVars, localVars, fnVars>>

(***************************************************************************)
(* Function-level specification: Init draws a function and an input from   *)
(* bounded sets, one action applies the function.                          *)
(***************************************************************************)
MaxModelFrags == 4
ModelFrags == {<<"/">>, S_gemini, S_Gemini, S_openai, S_anthropic, S_ollama, S_vllm, S_pro}
ModelStrings == Concats(ModelFrags, MaxModelFrags)

\* The command handler is not running in the function-level specification.
HandlerIdle ==
    /\ os_name = "posix" /\ environ = <<>> /\ dirs = {} /\ files = <<>>
    /\ cmd = "none" /\ url = <<>> /\ html = FALSE /\ output = None /\ model = None
    /\ summary = <<>> /\ save_original = FALSE /\ pc = "idle"
    /\ settings = None /\ model_config = None /\ response = None /\ article = None
    /\ summary_result = None
    /\ stdout = <<>> /\ stderr = <<>> /\ exit_code = None /\ caught = None
    /\ trace = <<>>

handlerVars == <<os_name, environ, dirs, files, cmd, url, html, output, model, summary,
                 save_original, pc, settings, model_config, response, article,
                 summary_result, stdout, stderr, exit_code, caught, trace>>

MaxErrorFrags == 3
ErrorFrags == {S_429, <<"4">>, <<"2", "9">>, S_rate_limit, E_rate, <<"r", "a", "t", "e">>,
               <<" ">>, <<"l", "i", "m", "i", "t">>, <<"x">>}
\* The texts of the provider's failures.
ErrorTexts == Concats(ErrorFrags, MaxErrorFrags)

\* The request of the extraction calls applied at function level.
FnRequest == ScrapeRequest(U_page, "markdown", None).value

MaxUrlFrags == 4
S_HTTP == <<"H", "T", "T", "P">>
S_host == <<"a", ".", "i", "o">>
UrlFrags == {S_http, S_HTTP, <<"s">>, <<":", "/", "/">>, <<":">>, <<"/">>, S_host,
             <<"@">>, <<"?">>, <<"#">>, <<"[">>}
\* The strings handed to validate_url.
UrlStrings == Concats(UrlFrags, MaxUrlFrags)

\* c * n
Rep(c, n) == [i \in 1..n |-> c]

MaxSegFrags == 3
MaxOverflow == 2
S_origin == S_https \o <<":", "/", "/">> \o S_host
SegFrags == {<<"b">>, <<"-">>, <<".">>, <<"/">>, <<":">>, <<"*">>, <<"\\">>, <<"|">>,
             <<"?", "q">>, <<"#", "f">>, <<":", "8">>}
\* Last segments longer than the limit of the base name, some with a
\* replaced character or a hyphen where the base name is cut.
LongSegments ==
    {Rep("a", n) \o t : n \in (MaxBaseName - 2)..(MaxBaseName + MaxOverflow),
                            t \in {<<>>, <<"-", "b">>, <<":", "*", "b">>}}
\* The URLs handed to generate_filename_from_url.
FilenameUrls ==
    {S_origin \o t : t \in Concats(SegFrags, MaxSegFrags)}
    \cup {S_origin \o <<"/", "p", "/">> \o t \o e :
              t \in Concats(SegFrags, MaxSegFrags - 1) \cup LongSegments,
              e \in {<<>>, <<"/">>}}

\* The metadata of the responses constructed at function level.
FnMetadata == [title |-> None, description |-> None, keywords |-> None,
               source_url |-> S_origin]
\* The keyword arguments handed to ScrapeResponse; success and error_message
\* have defaults, written out here.
ResponseArgs ==
    [content : {<<>>, C_markdown}, format : {"markdown", "html"},
     success : BOOLEAN, error_message : {None, Some(<<>>), Some(E_boom)}]

\* The disks a write can find: nothing there, the directory out, a file
\* already at the path, a file named out.
C_old == <<"o", "l", "d">>
P_deep == <<"a", "/", "b", "/", "c", ".", "m", "d">>
C_wide == <<"#", WideChar, "\n">>
Disks(path) ==
    {[dirs |-> {}, files |-> <<>>],
     [dirs |-> {Path(P_out)}, files |-> <<>>],
     [dirs |-> Ancestors(Parent(Path(path))), files |-> [p \in {Path(path)} |-> C_old]],
     [dirs |-> {}, files |-> [p \in {Path(P_out)} |-> C_old]]}
\* The arguments of write_to_file and save, the disk they find and the
\* operating system's verdict.
WriteArgs ==
    {[content |-> c, path |-> p, disk |-> d, io |-> io] :
        c \in {<<>>, C_markdown, C_wide}, p \in {P_out, P_file, P_nested, P_deep},
        d \in UNION {Disks(q) : q \in {P_out, P_file, P_nested, P_deep}},
        io \in IoOutcomes}

\* The payloads handed to FirecrawlService.scrape at function level: every
\* field present or absent, the payload and its metadata each a dict or an
\* object.
D_text == <<"d">>
K_text == <<"k">>
Shapes == {"dict", "object"}
FnPayloads ==
    {[shape |-> sh, markdown |-> m, html |-> h, metadata |-> md] :
        sh \in Shapes, m \in {None, Some(C_markdown)}, h \in {None, Some(C_html)},
        md \in {None} \cup
               {Some(x) : x \in [shape : Shapes, title : Titles,
                                  description : {None, Some(D_text)},
                                  keywords : {None, Some(K_text)},
                                  sourceURL : {None, Some(U_root)}]}}

\* The payloads handed to scrape_to_article_content at function level:
\* dicts, every field present or absent, the title also empty.
ArticlePayloads ==
    {p \in FnPayloads : p.shape = "dict"
                          /\ (p.metadata # None => p.metadata[1].shape = "dict")}
    \cup {[shape |-> "dict", markdown |-> Some(m), html |-> Some(C_html),
           metadata |-> Some([shape |-> "dict", title |-> Some(<<>>),
                              description |-> None, keywords |-> None,
                              sourceURL |-> None])] :
              m \in {<<>>, <<" ", "a", "\t", "\n", "b", " ">>}}

FnInit ==
    /\ HandlerIdle
    /\ fn_out = None
    /\ \/ fn = "from_model_string" /\ fn_in \in ModelStrings
       \/ fn = "scrape" /\ fn_in \in ErrorTexts
       \/ fn = "validate_url" /\ fn_in \in UrlStrings
       \/ fn = "ScrapeResponse" /\ fn_in \in ResponseArgs
       \/ fn \in {"write_to_file", "save"} /\ fn_in \in WriteArgs
       \/ fn = "scrape_to_article_content"
          /\ fn_in \in [url : Urls, payload : ArticlePayloads]
       \/ fn = "scrape_payload"
          /\ fn_in \in [format : {"markdown", "html"}, payload : FnPayloads]
       \/ fn = "generate_filename_from_url"
          /\ fn_in \in [url : FilenameUrls, format : {"markdown", "html"}]

\* AIModelConfiguration.from_model_string(fn_in)
Apply_from_model_string ==
    /\ fn = "from_model_string" /\ fn_out = None
    /\ fn_out' = Some(from_model_string(fn_in))
    /\ UNCHANGED <<fn, fn_in>>
    /\ UNCHANGED handlerVars

\* FirecrawlService.scrape(request) when the provider fails with the text fn_in
Apply_scrape ==
    /\ fn = "scrape" /\ fn_out = None
    /\ fn_out' = Some(FirecrawlService_scrape(FnRequest, Raised("Exception", fn_in)))
    /\ UNCHANGED <<fn, fn_in>>
    /\ UNCHANGED handlerVars

\* validate_url(fn_in)
Apply_validate_url ==
    /\ fn = "validate_url" /\ fn_out = None
    /\ fn_out' = Some(validate_url(fn_in))
    /\ UNCHANGED <<fn, fn_in>>
    /\ UNCHANGED handlerVars

\* generate_filename_from_url(fn_in.url, fn_in.format)
Apply_generate_filename_from_url ==
    /\ fn = "generate_filename_from_url" /\ fn_out = None
    /\ fn_out' = Some(Ok(generate_filename_from_url(fn_in.url, fn_in.format)))
    /\ UNCHANGED <<fn, fn_in>>
    /\ UNCHANGED handlerVars

\* ScrapeResponse(content=..., format=..., metadata=..., success=...,
\* error_message=...)
Apply_ScrapeResponse ==
    /\ fn = "ScrapeResponse" /\ fn_out = None
    /\ fn_out' = Some(ScrapeResponse(fn_in.content, fn_in.format, FnMetadata,
                                     fn_in.success, fn_in.error_message))
    /\ UNCHANGED <<fn, fn_in>>
    /\ UNCHANGED handlerVars

\* OutputService().write_to_file(response, fn_in.path) for a response with
\* the content fn_in.content
Apply_write_to_file ==
    /\ fn = "write_to_file" /\ fn_out = None
    /\ fn_out' = Some(write_to_file(fn_in.disk.dirs, fn_in.disk.files,
                                    [content |-> fn_in.content], fn_in.path, fn_in.io))
    /\ UNCHANGED <<fn, fn_in>>
    /\ UNCHANGED handlerVars

\* OutputService().save(fn_in.content, Path(fn_in.path))
Apply_save ==
    /\ fn = "save" /\ fn_out = None
    /\ fn_out' = Some(save(fn_in.disk.dirs, fn_in.disk.files, fn_in.content,
                           Path(fn_in.path), fn_in.io))
    /\ UNCHANGED <<fn, fn_in>>
    /\ UNCHANGED handlerVars

\* FirecrawlService.scrape(request) for a request of fn_in.format when the
\* provider returns fn_in.payload
Apply_scrape_payload ==
    /\ fn = "scrape_payload" /\ fn_out = None
    /\ fn_out' = Some(FirecrawlService_scrape(ScrapeRequest(U_page, fn_in.format, None).value,
                                              Returned(fn_in.payload)))
    /\ UNCHANGED <<fn, fn_in>>
    /\ UNCHANGED handlerVars

\* FirecrawlService.scrape_to_article_content(fn_in.url) when the provider
\* returns fn_in.payload
Apply_scrape_to_article_content ==
    /\ fn = "scrape_to_article_content" /\ fn_out = None
    /\ fn_out' = Some(scrape_to_article_content(fn_in.url, Returned(fn_in.payload)))
    /\ UNCHANGED <<fn, fn_in>>
    /\ UNCHANGED handlerVars

FnNext ==
    \/ Apply_from_model_string
    \/ Apply_scrape
    \/ Apply_validate_url
    \/ Apply_generate_filename_from_url
    \/ Apply_ScrapeResponse
    \/ Apply_write_to_file
    \/ Apply_save
    \/ Apply_scrape_payload
    \/ Apply_scrape_to_article_content

FnSpec == FnInit /\ [][FnNext]_vars

(***************************************************************************)
(* The command-level specification: Init draws the command line, the       *)
(* environment and the disk; the provider's answers and the operating      *)
(* system's verdicts are drawn when the handler asks.                      *)
(***************************************************************************)
HandlerStart ==
    /\ pc = "start"
    /\ settings = None /\ model_config = None /\ response = None /\ article = None
    /\ summary_result = None
    /\ stdout = <<>> /\ stderr = <<>> /\ exit_code = None /\ caught = None
    /\ trace = <<>>
    /\ files = <<>>
    /\ fn = "none" /\ fn_in = <<>> /\ fn_out = None

ScrapeInit ==
    /\ cmd = "scrape"
    /\ url \in Urls
    /\ html \in BOOLEAN
    /\ output \in Outputs
    /\ model = None /\ summary = <<>> /\ save_original = FALSE
    /\ os_name \in {"posix", "nt"}
    /\ environ \in [FIRECRAWL_API_URL : {None, Some(S_api_url)},
                    FIRECRAWL_API_KEY : {None, Some(S_key)},
                    DEFAULT_AI_MODEL : {None},
                    GOOGLE_API_KEY : {None}]
    /\ dirs \in InitialDirs

SummarizeInit ==
    /\ cmd = "summarize"
    /\ url \in {U_page, U_root, U_noscheme, U_nohost}
    /\ html = FALSE
    /\ output \in Outputs
    /\ model \in Models
    /\ summary \in SummaryLengths
    /\ save_original \in BOOLEAN
    /\ os_name \in {"posix", "nt"}
    /\ environ \in [FIRECRAWL_API_URL : {None, Some(S_api_url)},
                    FIRECRAWL_API_KEY : {None},
                    DEFAULT_AI_MODEL : DefaultModels,
                    GOOGLE_API_KEY : {None, Some(S_key)}]
    /\ dirs \in InitialDirs

Init == HandlerStart /\ (ScrapeInit \/ SummarizeInit)

Next ==
    \/ scrape_Prepare
    \/ scrape_Extract
    \/ scrape_Output
    \/ summarize_Configure
    \/ summarize_Crawl
    \/ summarize_AI
    \/ summarize_Output

Spec == Init /\ [][Next]_vars

(***************************************************************************)
(* Properties.                                                             *)
(***************************************************************************)
Done == pc = "done"

\* The positions of the trace holding calls of the kind op.
Calls(op) == {i \in DOMAIN trace : trace[i].op = op}

\* The provider returned a payload to the extraction call.
ExtractionSucceeded == \E i \in Calls("extract") : trace[i].answer.kind = "return"

\* A model string of the form provider/model-name: one '/', two non-empty parts
WellFormedModel(s) ==
    /\ Cardinality({i \in 1..Len(s) : s[i] = "/"}) = 1
    /\ s[1] # "/"
    /\ s[Len(s)] # "/"

\* The string ends with a path separator, '/' or '\'.
EndsWithSeparator(s) == s # <<>> /\ s[Len(s)] \in {"/", "\\"}

\* The text before the first '/'
ProviderPart(s) == SubSeq(s, 1, Find(s, "/") - 1)

\* C1: for the scrape and the summarize command, when FIRECRAWL_API_URL is
\* missing the command ends with exit code 2, never 1, and issues no
\* extraction call.  (Stated for the URLs that pass validate_url, so that
\* the missing setting is the only fault of the run.)
C1_MissingUrlExits2 ==
    (Done /\ environ.FIRECRAWL_API_URL = None /\ validate_url(url).ok) =>
        /\ exit_code = Some(2)
        /\ Calls("extract") = {}

\* A run of summarize without FIRECRAWL_API_URL that ends with exit code 1.
C1_SummarizeExits1 ==
    /\ cmd = "summarize" /\ Done
    /\ environ.FIRECRAWL_API_URL = None
    /\ exit_code = Some(1)
    /\ caught # None /\ caught[1].cls = "PydanticValidationError"

\* summarize ended with exit code 0 after saving both texts under --output
SavedBoth ==
    /\ cmd = "summarize" /\ Done /\ exit_code = Some(0)
    /\ save_original /\ Truthy(output)

\* The path p with '-summary' inserted before the extension of its name
SummarySibling(p) ==
    LET name == p.parts[Len(p.parts)]
        i == RFind(name, ".")
    IN  PathJoin(Parent(p),
                 IF i > 1 THEN SubSeq(name, 1, i - 1) \o S_summary \o SubSeq(name, i, Len(name))
                 ELSE name \o S_summary)

HoldsText(p, text) == p \in DOMAIN files /\ files[p] = text

TitleBase(title) == Prefix(Lower(ReplaceChar(title, " ", "-")), TitleBaseLen)

\* C3: summarize --save-original with an --output ending in '/' or '\',
\* whether or not the directory exists, writes exactly two files inside the
\* target directory: {base}.md with the original markdown and
\* {base}-summary.md with the summary.
C3_TwoFilesInDirectory ==
    (SavedBoth /\ EndsWithSeparator(output[1])) =>
        LET dir == Path(output[1])
            base == TitleBase(article[1].title)
            original == PathJoin(dir, base \o S_md)
            summ == PathJoin(dir, base \o S_summary \o S_md)
        IN  /\ DOMAIN files = {original, summ}
            /\ files[original] = article[1].markdown
            /\ files[summ] = summary_result[1].summary_text

\* A run with --output out/ and no directory out: the original is written
\* to the file out.
C3_WrittenBesideDirectory ==
    /\ SavedBoth /\ output = Some(P_dir)
    /\ HoldsText(Path(P_out), C_markdown)

\* scrape was given --output, the provider returned the content and no
\* write was refused
ScrapeWritten ==
    /\ cmd = "scrape" /\ Done /\ output # None
    /\ ExtractionSucceeded
    /\ caught = None

\* The file that C4 expects, and the confirmation line that names it.
C4_Expected ==
    LET payload == trace[1].answer.result
        content == IF html THEN payload.html[1] ELSE payload.markdown[1]
        target == IF EndsWithSeparator(output[1])
                  THEN PathJoin(Path(output[1]),
                                generate_filename_from_url(url, format_choice))
                  ELSE Path(output[1])
        named == IF EndsWithSeparator(output[1]) THEN PathStr(target) ELSE output[1]
    IN  /\ exit_code = Some(0)
        /\ DOMAIN files = {target}
        /\ files[target] = content
        /\ stderr[1] = Line(MsgA("Content saved to: ", named))
        /\ stdout = <<>>

\* C4: scrape with --output treats the target as a directory iff it ends
\* with '/' or '\' (the empty string is a file); for a directory the content
\* is written to target/DeriveFilenameFromUrl(url, format) and the
\* confirmation names that path, otherwise the content is written to exactly
\* the given path; the command exits 0.
C4_OutputTarget == ScrapeWritten => C4_Expected

\* C4 for every --output but the empty string, which the handler takes as
\* no --output at all.
C4_NonEmptyOutputTarget == (ScrapeWritten /\ output[1] # <<>>) => C4_Expected

C4_Witness ==
    /\ ScrapeWritten /\ output = Some(P_dir_backslash) /\ os_name = "posix"
    /\ url = U_page /\ html
    /\ HoldsText([root |-> FALSE, parts |-> <<P_dir_backslash, <<"b", "-", "n">> \o S_html>>],
                 C_html)

\* C5: scrape without --output, when the extraction succeeds, writes to
\* standard output exactly the extracted content and one newline, sends the
\* status lines to the error stream, creates or modifies no file and exits 0.
C5_StdoutOnly ==
    (cmd = "scrape" /\ Done /\ output = None /\ ExtractionSucceeded) =>
        LET payload == trace[1].answer.result
            content == IF html THEN payload.html[1] ELSE payload.markdown[1]
        IN  /\ stdout = <<[text |-> <<"">>, args |-> <<content>>, end |-> "\n"]>>
            /\ stderr = <<Line(MsgA("Scraped: ", url))>>
            /\ files = <<>>
            /\ Calls("write") = {}
            /\ exit_code = Some(0)

C5_Witness ==
    /\ cmd = "scrape" /\ Done /\ output = None /\ ExtractionSucceeded
    /\ html /\ stdout # <<>>

\* The model string that C6 says is used.
UsedModel == IF Truthy(model) THEN model ELSE environ.DEFAULT_AI_MODEL

\* The three cases of the configuration gate of C6.
NoModel == ~Truthy(UsedModel)
OtherProvider ==
    Truthy(UsedModel) /\ WellFormedModel(UsedModel[1]) /\ ProviderPart(UsedModel[1]) # S_gemini
NoGoogleKey ==
    /\ Truthy(UsedModel) /\ WellFormedModel(UsedModel[1])
    /\ ProviderPart(UsedModel[1]) = S_gemini
    /\ ~Truthy(environ.GOOGLE_API_KEY)

C6_Gate ==
    /\ model_config # None => model_config[1].full_name = UsedModel[1]
    /\ (Done /\ (NoModel \/ OtherProvider \/ NoGoogleKey)) =>
           /\ exit_code = Some(2)
           /\ Calls("extract") = {} /\ Calls("complete") = {}
           /\ OtherProvider => ProviderPart(UsedModel[1]) \in Range(caught[1].message.args)

\* C6: summarize uses --model if given, else DEFAULT_AI_MODEL; it exits
\* with code 2 when neither is set, when the provider is not exactly
\* 'gemini' (the message names the provider), or when the provider is gemini
\* and GOOGLE_API_KEY is not set; in these cases no extraction call and no
\* completion call is issued.
C6_ConfigurationGate == cmd = "summarize" => C6_Gate

\* The gate of C6 in the runs where FIRECRAWL_API_URL is set.
C6_GateWithSettings == (cmd = "summarize" /\ environ.FIRECRAWL_API_URL # None) => C6_Gate

\* A run stopped by an unsupported provider with no FIRECRAWL_API_URL.
C6_GateExits1 ==
    /\ cmd = "summarize" /\ Done /\ OtherProvider
    /\ environ.FIRECRAWL_API_URL = None
    /\ exit_code = Some(1)

\* The row of the error table for the completion provider's failure e:
\* the class of the error and its exit code
C7_Row(e) ==
    LET text == Lower(ErrorStr(e))
    IN  CASE e.cls = "LiteLLMAuthError" -> <<"AIServiceError", 2>>
          [] e.cls = "LiteLLMRateLimitError" -> <<"RateLimitExceededError", 3>>
          [] e.cls = "LiteLLMContextError" -> <<"TokenLimitExceededError", 3>>
          [] e.cls = "LiteLLMBadRequestError" ->
                 IF Contains(text, S_model) \/ Contains(text, S_not_found)
                 THEN <<"ModelNotFoundError", 2>>
                 ELSE <<"AIServiceError", 3>>
          [] OTHER -> <<"AIServiceError", 3>>

\* C7: every failure of the completion provider is mapped as the table
\* says (authentication: AIServiceError, code 2, naming the provider and the
\* credential variable; rate limit: RateLimitExceeded, 3; context window:
\* TokenLimitExceeded, 3; bad request mentioning 'model' or 'not found':
\* ModelNotFound, 2; any other: AIServiceError, 3), and summarize ends with
\* that exit code, the rate-limit message naming the provider.
C7_ErrorMapping ==
    \A i \in Calls("complete") :
        (cmd = "summarize" /\ Done /\ trace[i].answer.kind = "raise") =>
            LET e == trace[i].answer.exc
                row == C7_Row(e)
            IN  /\ caught # None
                /\ caught[1].cls = row[1]
                /\ caught[1].code = row[2]
                /\ exit_code = Some(row[2])
                /\ stderr[1] = Line(Wrap("AI Service Error: ", caught[1].message))
                /\ e.cls = "LiteLLMAuthError" =>
                       /\ model_config[1].provider \in Range(caught[1].message.args)
                       /\ Some("GOOGLE_API_KEY") \in Range(caught[1].message.args)
                /\ e.cls = "LiteLLMRateLimitError" =>
                       model_config[1].provider \in Range(caught[1].message.args)

C7_Witness ==
    /\ cmd = "summarize" /\ Done
    /\ \E i \in Calls("complete") :
         /\ trace[i].answer.kind = "raise"
         /\ trace[i].answer.exc.cls = "LiteLLMAuthError"
    /\ exit_code = Some(2)

\* The text signals a rate limit: it holds 429 or, in any case, rate limit
RateLimitSignal(text) ==
    \/ \E i \in 1..(Len(text) - 2) : SubSeq(text, i, i + 2) = S_429
    \/ \E i \in 1..(Len(text) - 9) : Lower(SubSeq(text, i, i + 9)) = S_rate_limit

\* C8: scrape fails with RateLimit (exit code 3) exactly when the provider's
\* failure signals 429 or holds a rate-limit indicator in any case; every
\* other failure becomes a FirecrawlApiError (exit code 1) wrapping the
\* provider's message.
C8_RateLimitClassification ==
    (fn = "scrape" /\ fn_out # None) =>
        /\ ~fn_out[1].ok
        /\ IF RateLimitSignal(fn_in)
           THEN fn_out[1].exc.cls = "RateLimitError" /\ fn_out[1].exc.code = 3
           ELSE /\ fn_out[1].exc.cls = "FirecrawlApiError"
                /\ fn_out[1].exc.code = 1
                /\ fn_out[1].exc.message.args = <<fn_in>>

C8_Witness ==
    /\ fn = "scrape" /\ fn_in = <<"x">> \o E_rate
    /\ fn_out # None /\ fn_out[1].exc.cls = "RateLimitError"

\* C9: from_model_string fails with a validation failure, and yields no
\* configuration, for every string with no '/', with more than one '/' or
\* with an empty provider or model part; it succeeds for every string with
\* exactly one '/' and two non-empty parts.
C9_RejectsMalformed ==
    (fn = "from_model_string" /\ fn_out # None) =>
        IF WellFormedModel(fn_in)
        THEN fn_out[1].ok
        ELSE /\ ~fn_out[1].ok
             /\ \/ IsInstance(fn_out[1].exc, "ValidationError")
                \/ IsInstance(fn_out[1].exc, "PydanticValidationError")

\* A string with no '/' that fails outside the validator.
C9_UnpackFailure ==
    /\ fn = "from_model_string" /\ fn_in = S_gemini \o S_pro
    /\ fn_out # None /\ ~fn_out[1].ok
    /\ fn_out[1].exc.cls = "ValueError"

\* C10: for every accepted string s, fullName = s = provider/modelName;
\* apiKeyEnvVar is GOOGLE_API_KEY, OPENAI_API_KEY, ANTHROPIC_API_KEY for
\* gemini, openai, anthropic and absent for every other provider; isLocal
\* iff the provider is ollama or vllm; the matching is case-sensitive.
C10_AcceptedConfiguration ==
    (fn = "from_model_string" /\ fn_out # None /\ fn_out[1].ok) =>
        LET c == fn_out[1].value
        IN  /\ c.full_name = fn_in
            /\ fn_in = c.provider \o <<"/">> \o c.model_name
            /\ c.provider = S_gemini => c.api_key_env_var = Some("GOOGLE_API_KEY")
            /\ c.provider = S_openai => c.api_key_env_var = Some("OPENAI_API_KEY")
            /\ c.provider = S_anthropic => c.api_key_env_var = Some("ANTHROPIC_API_KEY")
            /\ c.provider \notin {S_gemini, S_openai, S_anthropic} => c.api_key_env_var = None
            /\ c.is_local <=> (c.provider = S_ollama \/ c.provider = S_vllm)
            /\ c.provider = S_Gemini => (c.api_key_env_var = None /\ ~c.is_local)

C10_Witness ==
    /\ fn = "from_model_string" /\ fn_in = M_Gemini_pro
    /\ fn_out # None /\ fn_out[1].ok
    /\ fn_out[1].value.api_key_env_var = None

\* The scheme of a string: the text before its first ':', in lower case.
SchemeOf(s) == LET i == Find(s, ":") IN IF i > 1 THEN Lower(SubSeq(s, 1, i - 1)) ELSE <<>>

\* The authority of a string: the text between the '//' that follows the
\* scheme and the next '/', '?' or '#'.
AuthorityOf(s) ==
    LET i == Find(s, ":")
        rest == SubSeq(s, i + 1, Len(s))
    IN  IF i > 1 /\ Len(rest) >= 2 /\ rest[1] = "/" /\ rest[2] = "/"
        THEN LET after == SubSeq(rest, 3, Len(rest))
                 stops == {k \in 1..Len(after) : after[k] \in {"/", "?", "#"}}
                 n == IF stops = {} THEN Len(after)
                      ELSE (CHOOSE k \in stops : \A j \in stops : k <= j) - 1
             IN  SubSeq(after, 1, n)
        ELSE <<>>

\* The host component: the authority without its user information (up to
\* the last '@') and without its port (from the first ':' on).
HostOf(s) ==
    LET auth == AuthorityOf(s)
        hostport == SubSeq(auth, RFind(auth, "@") + 1, Len(auth))
        colon == Find(hostport, ":")
    IN  IF colon = 0 THEN hostport ELSE SubSeq(hostport, 1, colon - 1)

\* The host is not a bracketed literal left open.
ClosedBrackets(s) == "[" \notin Range(AuthorityOf(s))

\* C11: validate_url fails with a Validation failure for every string whose
\* scheme is not http or https or that has no host component, returns
\* success for every well-formed http(s) URL with a host, and never fails
\* with any other kind of error.
C11_ValidateUrl ==
    (fn = "validate_url" /\ fn_out # None) =>
        /\ ~fn_out[1].ok => fn_out[1].exc.cls = "ValidationError"
        /\ (SchemeOf(fn_in) \notin {S_http, S_https} \/ HostOf(fn_in) = <<>>) => ~fn_out[1].ok
        /\ (SchemeOf(fn_in) \in {S_http, S_https} /\ HostOf(fn_in) # <<>>
                /\ ClosedBrackets(fn_in)) => fn_out[1].ok

\* An http URL whose authority is a bare '@', with no host, is accepted.
C11_AcceptsHostless ==
    /\ fn = "validate_url" /\ fn_in = S_http \o <<":", "/", "/", "@">>
    /\ fn_out # None /\ fn_out[1].ok

\* What validate_url does hold to: the same with the authority in the place
\* of the host.
C11_AuthorityRule ==
    (fn = "validate_url" /\ fn_out # None) =>
        /\ ~fn_out[1].ok => fn_out[1].exc.cls = "ValidationError"
        /\ (SchemeOf(fn_in) \notin {S_http, S_https} \/ AuthorityOf(fn_in) = <<>>) => ~fn_out[1].ok
        /\ (SchemeOf(fn_in) \in {S_http, S_https} /\ AuthorityOf(fn_in) # <<>>
                /\ ClosedBrackets(fn_in)) => fn_out[1].ok

\* generate_filename_from_url was applied and returned.
FilenameDerived == fn = "generate_filename_from_url" /\ fn_out # None

\* C12: for every URL and for both formats the file name returned by
\* generate_filename_from_url has at most 204 characters.
C12_LengthAtMost204 == FilenameDerived => Len(fn_out[1].value) <= 204

\* C12 as the code has it: the base name is cut to 200 characters and the
\* extension follows it, so the file name has at most 203 characters for
\* markdown and at most 205 for html.
C12_LengthAtMost205 ==
    FilenameDerived =>
        Len(fn_out[1].value) <= (IF fn_in.format = "markdown" THEN 203 ELSE 205)

C12_Witness ==
    /\ FilenameDerived /\ fn_in.format = "html"
    /\ Len(fn_out[1].value) = 205

\* The five steps of C13, written out.
Replaced == {"/", "\\", "?", "#", ":", "*", "\"", "<", ">", "|"}

\* The path of a URL: what follows the authority, up to the query or fragment.
PathOf(u) ==
    LET rest == SubSeq(u, Find(u, ":") + 3 + Len(AuthorityOf(u)), Len(u))
        stops == {k \in 1..Len(rest) : rest[k] \in {"?", "#"}}
    IN  IF stops = {} THEN rest
        ELSE SubSeq(rest, 1, (CHOOSE k \in stops : \A j \in stops : k <= j) - 1)

\* Step 1: the last non-empty segment of a path, empty when it has none.
LastNonEmptySegment(path) ==
    LET ends == {k \in 1..Len(path) : path[k] # "/"}
    IN  IF ends = {} THEN <<>>
        ELSE LET e == CHOOSE k \in ends : \A j \in ends : j <= k
                 slashes == {k \in 1..e : path[k] = "/"}
                 b == IF slashes = {} THEN 0
                      ELSE CHOOSE k \in slashes : \A j \in slashes : j <= k
             IN  SubSeq(path, b + 1, e)

\* Step 2: each replaced character becomes '-'.
ReplaceSpecial(s) == [i \in 1..Len(s) |-> IF s[i] \in Replaced THEN "-" ELSE s[i]]

\* Step 3: one '-' for each run of '-', none at either end.
OneHyphenPerRun(s) ==
    Let({k \in 1..Len(s) : ~(s[k] = "-" /\ k > 1 /\ s[k - 1] = "-")}, LAMBDA kept :
    Let([k \in 1..Len(s) |-> Cardinality({m \in kept : m <= k})], LAMBDA rank :
        [j \in 1..Cardinality(kept) |-> s[CHOOSE k \in kept : rank[k] = j]]))

NoOuterHyphens(s) ==
    LET keep == {k \in 1..Len(s) : s[k] # "-"}
    IN  IF keep = {} THEN <<>>
        ELSE SubSeq(s, CHOOSE k \in keep : \A j \in keep : k <= j,
                       CHOOSE k \in keep : \A j \in keep : j <= k)

\* Steps 1 to 3, then step 4, the cut to 200 characters.
ReferenceBase(u) ==
    LET seg == LastNonEmptySegment(PathOf(u))
        named == IF seg # <<>> THEN seg
                 ELSE [i \in 1..Len(AuthorityOf(u)) |->
                          IF AuthorityOf(u)[i] = "." THEN "-" ELSE AuthorityOf(u)[i]]
        clean == NoOuterHyphens(OneHyphenPerRun(ReplaceSpecial(named)))
    IN  SubSeq(clean, 1, IF Len(clean) > 200 THEN 200 ELSE Len(clean))

ResponseTried == fn = "ScrapeResponse" /\ fn_out # None

\* C14: every ScrapeResponse that can be constructed with success = true
\* has no error message: a construction with success = true and an error
\* message present does not succeed.
C14_SuccessHasNoMessage ==
    (ResponseTried /\ fn_out[1].ok /\ fn_out[1].value.success) =>
        fn_out[1].value.error_message = None

\* A response constructed with success = true that carries an error message.
C14_SuccessWithMessage ==
    /\ ResponseTried /\ fn_in.success /\ fn_in.error_message = Some(E_boom)
    /\ fn_out[1].ok
    /\ fn_out[1].value.success /\ fn_out[1].value.error_message = Some(E_boom)

\* C15: constructing a ScrapeResponse with success = false and no error
\* message always fails with a validation error; with success = false and
\* an error message it always succeeds and keeps that message.
C15_FailureNeedsMessage ==
    (ResponseTried /\ ~fn_in.success) =>
        IF fn_in.error_message = None
        THEN ~fn_out[1].ok /\ fn_out[1].exc.cls = "PydanticValidationError"
        ELSE /\ fn_out[1].ok
             /\ ~fn_out[1].value.success
             /\ fn_out[1].value.error_message = fn_in.error_message

C15_Witness ==
    /\ ResponseTried /\ ~fn_in.success /\ fn_in.error_message = None
    /\ ~fn_out[1].ok

\* The three length modes.
LengthModes == {"brief", "standard", "detailed"}

\* C16: the length mode is always one of brief, standard, detailed: every
\* AISummary produced by the summarize command has its length mode in that
\* set, and a length mode outside the set (wrong case included) is rejected
\* and not summarised with some prompt and token budget.
C16_LengthModeInSet ==
    cmd = "summarize" =>
        /\ summary_result # None => summary_result[1].length_mode \in LengthModes
        /\ summary \notin LengthModes => Calls("complete") = {}

\* A run with --summary BRIEF that is summarised with the standard prompt
\* and budget and ends with exit code 0.
C16_SummarisedUnknownMode ==
    /\ cmd = "summarize" /\ Done /\ exit_code = Some(0)
    /\ summary = "BRIEF"
    /\ summary_result[1].length_mode = "BRIEF"
    /\ \E i \in Calls("complete") :
         /\ trace[i].messages[1].content = "STANDARD_PROMPT"
         /\ trace[i].max_tokens = 300

S_token_limit == <<"t", "o", "k", "e", "n", " ", "l", "i", "m", "i", "t">>
S_context_window == <<"c", "o", "n", "t", "e", "x", "t", " ", "w", "i", "n", "d", "o", "w">>

\* The text of a message whose pieces are characters: the literal pieces
\* with the interpolated values between them.
Render(m) ==
    Flatten([i \in 1..(Len(m.text) + Len(m.args)) |->
                IF i % 2 = 1 THEN m.text[(i + 1) \div 2] ELSE m.args[i \div 2]])

\* The completion provider signalled that the context window is exceeded.
ContextExceeded ==
    /\ cmd = "summarize" /\ Done
    /\ \E i \in Calls("complete") :
         /\ trace[i].answer.kind = "raise"
         /\ trace[i].answer.exc.cls = "LiteLLMContextError"

\* C17: when the completion provider signals that the context window is
\* exceeded, the summarization fails with TokenLimitExceeded, exit code 3,
\* and a message that contains 'token limit' in some case.
C17_TokenLimitMessage ==
    ContextExceeded =>
        /\ caught # None /\ caught[1].cls = "TokenLimitExceededError"
        /\ caught[1].code = 3 /\ exit_code = Some(3)
        /\ Contains(Lower(Render(caught[1].message)), S_token_limit)

\* The failure is a TokenLimitExceeded with exit code 3 whose message
\* speaks of the context window and never of a token limit.
C17_ContextWindowMessage ==
    /\ ContextExceeded
    /\ caught[1].cls = "TokenLimitExceededError" /\ exit_code = Some(3)
    /\ Contains(Lower(Render(caught[1].message)), S_context_window)
    /\ ~Contains(Lower(Render(caught[1].message)), S_token_limit)

\* summarize was given an --output ending in '/' and no --save-original,
\* and ended with exit code 0.
SavedToDirectory ==
    /\ cmd = "summarize" /\ Done /\ exit_code = Some(0)
    /\ ~save_original /\ Truthy(output) /\ output[1][Len(output[1])] = "/"

\* C18: summarize with an --output naming a directory (ending in '/') and
\* without --save-original writes the summary to an automatically named
\* file inside that directory and exits 0.  (Stated for the runs that end
\* with exit code 0, so that no refusal of the disk is involved.)
C18_SummaryInsideDirectory ==
    SavedToDirectory =>
        \E p \in DOMAIN files :
            /\ DOMAIN files = {p}
            /\ Parent(p) = Path(output[1])
            /\ files[p] = summary_result[1].summary_text

\* A run with --output out/ and no directory out: the summary is written
\* to the file out itself.
C18_WrittenAsFile ==
    /\ SavedToDirectory /\ output = Some(P_dir)
    /\ DOMAIN files = {Path(P_out)}
    /\ files[Path(P_out)] = C_summary

\* The warning about a very short article is among the lines printed.
Warned ==
    \E i \in 1..Len(stdout) : stdout[i].text[1] = "Warning: Article is very short ("

\* C19: an article is minimal exactly when it has fewer than 100 words
\* (99: minimal, 100: not); summarize prints a warning for a minimal
\* article and none for an article of 100 words or more; the warning never
\* prevents the completion call, and the command still ends with exit code
\* 0 when the rest of the pipeline succeeds.
C19_MinimalWarning ==
    (cmd = "summarize" /\ article # None) =>
        /\ Warned <=> article[1].word_count < 100
        /\ article[1].word_count = 99 => Warned
        /\ article[1].word_count = 100 => ~Warned
        /\ pc # "ai" => Calls("complete") # {}
        /\ (Done /\ summary_result # None /\ caught = None) => exit_code = Some(0)

\* A run on an article of 99 words: warned, summarised, exit code 0.
C19_Witness ==
    /\ cmd = "summarize" /\ Done /\ exit_code = Some(0)
    /\ article[1].word_count = 99 /\ Warned
    /\ \E i \in Calls("complete") : trace[i].answer.kind = "return"

\* The three places where an adapter's failure ends a command: the
\* extraction of scrape, the crawl of summarize, the completion of summarize.
ScrapeAdapterFailed == cmd = "scrape" /\ Done /\ settings # None /\ response = None
CrawlAdapterFailed == cmd = "summarize" /\ Done /\ settings # None /\ article = None
CompletionAdapterFailed ==
    cmd = "summarize" /\ Done /\ article # None /\ summary_result = None

\* The command ended with the exit code its failure carries, outside the
\* catch-all branch.
EndedWithOwnCode ==
    /\ exit_code = Some(caught[1].code)
    /\ stderr[1].text[1] # "Unexpected error: "

\* C20: every failure that leaves an adapter is a typed member of the error
\* taxonomy carrying its exit code: RateLimit (3) or ExtractionFailed (1)
\* from Scrape and ScrapeToArticleContent, a failure of the AIServiceError
\* family with code 2 or 3 from Summarize; the command ends with that code
\* and never in its catch-all 'unexpected error' branch.
C20_TypedAdapterFailures ==
    /\ (ScrapeAdapterFailed \/ CrawlAdapterFailed) =>
           /\ caught # None
           /\ \/ caught[1].cls = "RateLimitError" /\ caught[1].code = 3
              \/ caught[1].cls = "FirecrawlApiError" /\ caught[1].code = 1
           /\ EndedWithOwnCode
    /\ CompletionAdapterFailed =>
           /\ caught # None
           /\ "AIServiceError" \in Bases(caught[1].cls)
           /\ caught[1].code \in {2, 3}
           /\ EndedWithOwnCode

\* summarize on a URL with no scheme: the failure that leaves
\* scrape_to_article_content is pydantic's, and the command ends in the
\* catch-all branch with exit code 1, no extraction call issued.
C20_UnexpectedFromAdapter ==
    /\ CrawlAdapterFailed /\ url = U_noscheme
    /\ caught # None /\ caught[1].cls = "PydanticValidationError"
    /\ stderr[1].text[1] = "Unexpected error: "
    /\ exit_code = Some(1)
    /\ Calls("extract") = {}

\* write_to_file or save was applied.
WriteTried == fn \in {"write_to_file", "save"} /\ fn_out # None

\* The number of bytes of a text in UTF-8.
RECURSIVE ByteCount(_)
ByteCount(text) ==
    IF text = <<>> THEN 0
    ELSE (IF Head(text) = "U+4E2D" THEN 3 ELSE 1) + ByteCount(Tail(text))

\* C21: after write_to_file or save succeeds, the missing parent directories
\* exist and the file at the path holds exactly the content, whatever was
\* there before; save returns an OutputFile whose file path is the path,
\* whose format is 'markdown' and whose file size is the number of bytes
\* written; a failure of the file system surfaces as OutputError, exit code
\* 1, and as nothing else.
C21_WriteOrOutputError ==
    WriteTried =>
        LET out == fn_out[1]
            p == Path(fn_in.path)
        IN  IF out.ok
            THEN /\ \A n \in 1..(Len(p.parts) - 1) :
                        [root |-> p.root, parts |-> SubSeq(p.parts, 1, n)] \in out.dirs
                 /\ p \in DOMAIN out.files /\ out.files[p] = fn_in.content
                 /\ fn_in.disk.dirs \subseteq out.dirs
                 /\ \A q \in DOMAIN fn_in.disk.files \ {p} :
                        q \in DOMAIN out.files /\ out.files[q] = fn_in.disk.files[q]
                 /\ fn = "save" =>
                        /\ out.value.file_path = fn_in.path
                        /\ out.value.format = "markdown"
                        /\ out.value.file_size = ByteCount(fn_in.content)
            ELSE /\ out.exc.cls = "OutputError" /\ out.exc.code = 1
                 /\ out.files = fn_in.disk.files

\* save overwrote an old file below directories it had to find or create,
\* with a content of more bytes than characters.
C21_Witness ==
    /\ WriteTried /\ fn = "save" /\ fn_in.path = P_deep
    /\ fn_in.content = C_wide
    /\ Path(P_deep) \in DOMAIN fn_in.disk.files
    /\ fn_out[1].ok /\ fn_out[1].value.file_size = 5

\* The provider calls that were answered with a failure.
FailedCalls ==
    {i \in DOMAIN trace : trace[i].op \in {"extract", "complete"}
                             /\ trace[i].answer.kind = "raise"}

\* C22: no retry: a run of scrape or summarize issues at most one extraction
\* call and at most one completion call; when a call fails, it is the last
\* thing the command does with a provider or the disk, and the command ends
\* with the exit code of the failure raised for it.
C22_NoRetry ==
    /\ Cardinality(Calls("extract")) <= 1
    /\ Cardinality(Calls("complete")) <= 1
    /\ \A i \in FailedCalls :
          /\ i = Len(trace)
          /\ Calls("write") = {}
          /\ files = <<>>
          /\ Done
          /\ caught # None /\ "CrawlerError" \in Bases(caught[1].cls)
          /\ exit_code = Some(caught[1].code) /\ exit_code # Some(0)
          /\ \A k \in DOMAIN stdout : stdout[k].text[1] \notin {"", "SUMMARY"}

\* Each command ended on a rate-limited provider call, with exit code 3:
\* scrape on its extraction call, summarize on its completion call after
\* one extraction call.
C22_Witness ==
    /\ FailedCalls # {} /\ exit_code = Some(3)
    /\ \/ cmd = "scrape" /\ Calls("extract") = {1}
       \/ cmd = "summarize" /\ Calls("extract") = {1} /\ Calls("complete") = {2}

\* A valid http/https URL: the scheme is http or https and a host follows
\* the '//' after it.
ValidHttpUrl(s) == SchemeOf(s) \in {S_http, S_https} /\ HostOf(s) # <<>>

\* The provider calls issued before position i all returned.
ProvidersSucceededBefore(i) ==
    \A j \in 1..(i - 1) :
        trace[j].op \in {"extract", "complete"} => trace[j].answer.kind = "return"

\* The content was printed to the console.
ContentPrinted == \E k \in DOMAIN stdout : stdout[k].text[1] \in {"", "SUMMARY"}

\* The output comes last: after the one provider call of scrape, after the
\* two of summarize, all of which returned.
OutputAfterProviders ==
    /\ \A i \in Calls("write") :
          /\ ProvidersSucceededBefore(i)
          /\ Calls("extract") # {} /\ \A j \in Calls("extract") : j < i
          /\ cmd = "summarize" => Calls("complete") # {} /\ \A j \in Calls("complete") : j < i
    /\ ContentPrinted =>
          /\ ProvidersSucceededBefore(Len(trace) + 1)
          /\ Calls("extract") # {}
          /\ cmd = "summarize" => Calls("complete") # {}

\* The completion call follows an extraction call that returned.
CompletionAfterExtraction ==
    \A i \in Calls("complete") :
        \E j \in Calls("extract") : j < i /\ trace[j].answer.kind = "return"

\* The extraction call follows the validation of the configuration.
ExtractionAfterConfiguration ==
    \A i \in Calls("extract") :
        /\ settings # None /\ Truthy(Some(settings[1].firecrawl_api_url))
        /\ cmd = "summarize" => model_config # None

\* C23: in every run of either command the extraction call is issued only
\* after the input and the configuration were validated, and never for a
\* URL that is not a valid http/https URL; the completion call is issued
\* only after the extraction call succeeded; the content is written or
\* printed only after every provider call before it succeeded.
C23_PipelineOrder ==
    /\ ExtractionAfterConfiguration
    /\ Calls("extract") # {} => ValidHttpUrl(url)
    /\ CompletionAfterExtraction
    /\ OutputAfterProviders

\* The order of the calls, the validation of the URL left aside.
C23_OrderOfCalls ==
    ExtractionAfterConfiguration /\ CompletionAfterExtraction /\ OutputAfterProviders

\* summarize issued its extraction call for 'http:///p', which has no host:
\* the request was built for 'http://p/'.
C23_ExtractionForHostlessUrl ==
    /\ cmd = "summarize" /\ url = U_nohost /\ ~ValidHttpUrl(url)
    /\ Calls("extract") = {1}
    /\ trace[1].url = S_http \o <<":", "/", "/", "p", "/">>

\* The prompt template and the token budget of a length mode.
TemplateOf(mode) ==
    IF mode = "brief" THEN "BRIEF_PROMPT"
    ELSE IF mode = "standard" THEN "STANDARD_PROMPT" ELSE "DETAILED_PROMPT"
BudgetOf(mode) == IF mode = "brief" THEN 100 ELSE IF mode = "standard" THEN 300 ELSE 600

\* AIService.summarize returned a summary.
Summarised == cmd = "summarize" /\ summary_result # None

\* C24: when summarize succeeds it has issued one completion request whose
\* model is the full name of the configuration, whose system message is the
\* template of the length mode, whose user message is the whole markdown of
\* the article, with temperature 0.3 and max tokens 100, 300 or 600 for
\* brief, standard or detailed; the AISummary returned holds the generated
\* text, the provider's token counts, the full name of the model, the
\* article's detected language, the requested mode, and the article's URL
\* and title.
C24_CompletionRequest ==
    Summarised =>
        /\ Cardinality(Calls("complete")) = 1
        /\ \A i \in Calls("complete") :
              /\ trace[i].model = model_config[1].provider \o <<"/">> \o model_config[1].model_name
              /\ Len(trace[i].messages) = 2
              /\ trace[i].messages[2] = [role |-> "user", content |-> article[1].markdown]
              /\ trace[i].messages[1].role = "system"
              /\ trace[i].temperature = "0.3"
              /\ summary \in {"brief", "standard", "detailed"} =>
                    /\ trace[i].messages[1].content = TemplateOf(summary)
                    /\ trace[i].max_tokens = BudgetOf(summary)
              /\ summary_result[1].summary_text = trace[i].answer.result.content[1]
              /\ summary_result[1].token_usage = trace[i].answer.result.usage
              /\ summary_result[1].model_used = trace[i].model
        /\ summary_result[1].output_language = article[1].detected_language
        /\ summary_result[1].length_mode = summary
        /\ summary_result[1].source_url = article[1].url
        /\ summary_result[1].source_title = article[1].title

\* A brief summary of the 100-word article was returned: the request asked
\* for at most 100 tokens with the whole article as the user message.
C24_Witness ==
    /\ Summarised /\ summary = "brief"
    /\ article[1].markdown = Words(100)
    /\ trace[2].op = "complete" /\ trace[2].max_tokens = 100
    /\ trace[2].messages[2].content = Words(100)
    /\ summary_result[1].token_usage # None /\ summary_result[1].token_usage[1].total_tokens = 10

\* FirecrawlService.scrape was applied to a payload.
PayloadTried == fn = "scrape_payload" /\ fn_out # None

\* The value of an optional field, a default when it is absent.
OrElse(opt, default) == IF opt = None THEN default ELSE opt[1]

\* The ScrapeResponse that the fields of a payload stand for, whatever the
\* shape they are delivered in.
ResponseOfFields(p, format) ==
    [content |-> OrElse(IF format = "markdown" THEN p.markdown ELSE p.html, <<>>),
     format |-> format,
     metadata |-> [title |-> IF p.metadata = None THEN None ELSE p.metadata[1].title,
                   description |-> IF p.metadata = None THEN None
                                   ELSE p.metadata[1].description,
                   keywords |-> IF p.metadata = None THEN None ELSE p.metadata[1].keywords,
                   source_url |-> IF p.metadata = None THEN U_page
                                  ELSE OrElse(p.metadata[1].sourceURL, U_page)],
     success |-> TRUE, error_message |-> None]

\* C25: for every combination of present and absent fields (markdown, html,
\* metadata and its title, description, keywords, sourceURL) scrape returns
\* the same ScrapeResponse whether the payload comes as a dict or as an
\* object: the content is the field of the requested format, the format is
\* the requested one, absent metadata fields are None, and source_url is the
\* provider's sourceURL or else the requested URL.
C25_ShapeEquivalence ==
    PayloadTried =>
        /\ fn_out[1].ok
        /\ fn_out[1].value = ResponseOfFields(fn_in.payload, fn_in.format)

\* The same for the payloads whose metadata has the shape of the payload.
C25_UniformShapes ==
    (/\ PayloadTried
     /\ fn_in.payload.metadata # None => fn_in.payload.metadata[1].shape = fn_in.payload.shape)
        => /\ fn_out[1].ok
           /\ fn_out[1].value = ResponseOfFields(fn_in.payload, fn_in.format)

\* An object whose metadata attribute is a dict with a title and a
\* sourceURL: the response has no title and the requested URL as source.
C25_ObjectDropsDictMetadata ==
    /\ PayloadTried /\ fn_in.payload.shape = "object"
    /\ fn_in.payload.metadata # None /\ fn_in.payload.metadata[1].shape = "dict"
    /\ fn_in.payload.metadata[1].title = Some(T_doc)
    /\ fn_in.payload.metadata[1].sourceURL = Some(U_root)
    /\ fn_out[1].ok
    /\ fn_out[1].value.metadata.title = None
    /\ fn_out[1].value.metadata.source_url = U_page

\* scrape_to_article_content returned an article.
ArticleReturned == fn = "scrape_to_article_content" /\ fn_out # None /\ fn_out[1].ok

\* The number of whitespace-delimited tokens of a text, counted at the
\* ends of the tokens.
TokenCount(s) ==
    Cardinality({i \in 1..Len(s) :
                    s[i] \notin {" ", "\t", "\n", "\r"}
                    /\ (i = Len(s) \/ s[i + 1] \in {" ", "\t", "\n", "\r"})})

\* The last segment of the path of a URL: what follows the last '/' of the
\* path.
LastPathSegment(u) == SubSeq(PathOf(u), RFind(PathOf(u), "/") + 1, Len(PathOf(u)))

\* The title the provider sent, None when it sent none or an empty one.
SentTitle(p) ==
    IF p.metadata = None THEN None
    ELSE IF p.metadata[1].title = Some(<<>>) THEN None ELSE p.metadata[1].title

\* The article but for its title: the markdown of the payload, its token
\* count, no detected language, the three entries of the metadata.
ArticleBody ==
    ArticleReturned =>
        LET a == fn_out[1].value
            r == ResponseOfFields(fn_in.payload, "markdown")
        IN  /\ a.markdown = r.content
            /\ a.word_count = TokenCount(r.content) /\ a.word_count >= 0
            /\ a.detected_language = None
            /\ a.metadata = [source_url |-> IF fn_in.payload.metadata = None THEN a.url
                                             ELSE OrElse(fn_in.payload.metadata[1].sourceURL,
                                                         a.url),
                              description |-> r.metadata.description,
                              keywords |-> r.metadata.keywords]

\* C26: scrape_to_article_content(url) requests the markdown format and
\* returns an ArticleContent whose markdown is the scraped content, whose
\* word_count is the number of whitespace-delimited tokens of that content,
\* whose detected_language is unset, whose metadata holds source_url,
\* description and keywords, and whose title is the metadata title or, when
\* that is absent, the last path segment of the URL.
C26_ArticleContent ==
    /\ ArticleBody
    /\ ArticleReturned =>
          fn_out[1].value.title = OrElse(SentTitle(fn_in.payload), LastPathSegment(fn_in.url))

\* The same for the URLs that end with their path, which is not empty.
C26_UrlsEndingWithPath ==
    /\ ArticleBody
    /\ (ArticleReturned /\ fn_in.url \in {U_page, U_root, U_nohost}) =>
          fn_out[1].value.title = OrElse(SentTitle(fn_in.payload), LastPathSegment(fn_in.url))

\* The article of 'https://a.io/p?q#f' with no title sent is titled 'p?q#f',
\* the last path segment being 'p'.
C26_TitleWithQuery ==
    /\ ArticleReturned /\ fn_in.url = U_query /\ SentTitle(fn_in.payload) = None
    /\ LastPathSegment(fn_in.url) = <<"p">>
    /\ fn_out[1].value.title = <<"p", "?", "q", "#", "f">>

\* summarize with --save-original took its directory branch and called
\* save: the target is a directory on the disk.
DirectoryDualWrite ==
    /\ cmd = "summarize" /\ save_original /\ Truthy(output)
    /\ Calls("write") # {}
    /\ Path(output[1]) \in dirs

\* C27: in the dual-write directory mode of summarize, whatever the title
\* of the article, both files are written directly inside the target
\* directory: no sub-directory is created and no file is written outside.
C27_InsideTargetDirectory ==
    DirectoryDualWrite =>
        /\ \A i \in Calls("write") :
              /\ trace[i].path.root = Path(output[1]).root
              /\ SubSeq(trace[i].path.parts, 1, Len(trace[i].path.parts) - 1)
                     = Path(output[1]).parts
        /\ \A d \in dirs : Len(d.parts) <= Len(Path(output[1]).parts)

\* The same for the titles without a separator.
C27_PlainTitles ==
    (DirectoryDualWrite /\ Range(article[1].title) \cap {"/", "\\"} = {}) =>
        /\ \A i \in Calls("write") :
              /\ trace[i].path.root = Path(output[1]).root
              /\ SubSeq(trace[i].path.parts, 1, Len(trace[i].path.parts) - 1)
                     = Path(output[1]).parts
        /\ \A d \in dirs : Len(d.parts) <= Len(Path(output[1]).parts)

\* The title 'A/B c' made the command create the directory out/a and write
\* both files into it.
C27_SubdirectoryCreated ==
    /\ DirectoryDualWrite /\ Done /\ exit_code = Some(0)
    /\ article[1].title = T_nested
    /\ [root |-> FALSE, parts |-> <<P_out, <<"a">>>>] \in dirs
    /\ DOMAIN files = {[root |-> FALSE, parts |-> <<P_out, <<"a">>, <<"b", "-", "c", ".", "m", "d">>>>],
                        [root |-> FALSE, parts |-> <<P_out, <<"a">>,
                             <<"b", "-", "c", "-", "s", "u", "m", "m", "a", "r", "y", ".", "m", "d">>>>]}

\* summarize with --save-original and --output reached its writes.
DualWrite ==
    cmd = "summarize" /\ save_original /\ Truthy(output) /\ Calls("write") # {}

\* C28: in the dual-write mode of summarize the original is written first
\* and the summary second, to two distinct paths; when the write of the
\* summary fails the command ends with OutputError and exit code 1 and the
\* original stays on disk; when the write of the original fails the summary
\* is never written.
C28_DualWriteOrder ==
    DualWrite =>
        LET w == [k \in 1..Cardinality(Calls("write")) |-> trace[2 + k]]
        IN  /\ Len(w) <= 2 /\ Calls("write") = 3..(2 + Len(w))
            /\ w[1].content = article[1].markdown
            /\ Len(w) = 2 =>
                  /\ w[1].ok
                  /\ w[2].content = summary_result[1].summary_text
                  /\ w[2].path # w[1].path
                  /\ w[1].path \in DOMAIN files /\ files[w[1].path] = article[1].markdown
                  /\ ~w[2].ok =>
                        /\ exit_code = Some(1)
                        /\ caught # None /\ caught[1].cls = "OutputError"
                        /\ caught[1].code = 1
                        /\ DOMAIN files = {w[1].path}
                  /\ w[2].ok =>
                        /\ exit_code = Some(0)
                        /\ files[w[2].path] = summary_result[1].summary_text
            /\ Len(w) = 1 =>
                  /\ ~w[1].ok
                  /\ files = <<>>
                  /\ exit_code = Some(1)
                  /\ caught # None /\ caught[1].cls = "OutputError"

\* The write of the summary was refused after the original was written to
\* out/r.md: exit code 1, the original still on disk, no summary file.
C28_Witness ==
    /\ DualWrite /\ output = Some(P_nested)
    /\ Cardinality(Calls("write")) = 2
    /\ trace[3].ok /\ ~trace[4].ok
    /\ exit_code = Some(1)
    /\ DOMAIN files = {Path(P_nested)}
    /\ files[Path(P_nested)] = article[1].markdown

\* The content that the command is to deliver: the scraped content, or the
\* summary.
Deliverable == IF cmd = "scrape" THEN response[1].content ELSE summary_result[1].summary_text

\* The whole content is on standard output, on a line of its own.
PrintedInFull ==
    \E k \in DOMAIN stdout :
        /\ stdout[k].text[1] = "" /\ stdout[k].end = "\n"
        /\ stdout[k].args = <<Deliverable>>

\* Every requested file was written and holds its whole content: one file,
\* or two for summarize with --save-original.
WrittenInFull ==
    LET w == Calls("write")
    IN  /\ Cardinality(w) = IF cmd = "summarize" /\ save_original THEN 2 ELSE 1
        /\ \A i \in w :
              /\ trace[i].ok
              /\ trace[i].path \in DOMAIN files
              /\ files[trace[i].path] = trace[i].content
        /\ \E i \in w : trace[i].content = Deliverable
        /\ (cmd = "summarize" /\ save_original) =>
              \E i \in w : trace[i].content = article[1].markdown

\* C29: either command ends with exit code 0 only if every provider call
\* of the run succeeded and the content was delivered in full, printed to
\* standard output or written to every requested file; every other exit
\* code is 1, 2 or 3.
C29_ExitCodes ==
    Done =>
        /\ exit_code \in {Some(0), Some(1), Some(2), Some(3)}
        /\ exit_code = Some(0) =>
              /\ Calls("extract") # {}
              /\ cmd = "summarize" => Calls("complete") # {}
              /\ \A i \in Calls("extract") \cup Calls("complete") :
                    trace[i].answer.kind = "return"
              /\ caught = None
              /\ IF Truthy(output) THEN WrittenInFull ELSE PrintedInFull

\* summarize with --save-original ended with exit code 0 after both
\* provider calls returned and both files were written.
C29_Witness ==
    /\ Done /\ exit_code = Some(0) /\ cmd = "summarize" /\ save_original
    /\ Truthy(output) /\ WrittenInFull
    /\ Cardinality(DOMAIN files) = 2

\* The base name of the file name returned: the part before the extension.
BaseNameReturned ==
    SubSeq(fn_out[1].value, 1,
           Len(fn_out[1].value) - (IF fn_in.format = "html" THEN 5 ELSE 3))

\* generate_filename_from_url was applied to a URL that validate_url accepts.
DerivedForAcceptedUrl == FilenameDerived /\ validate_url(fn_in.url).ok

\* C30: for every URL accepted by validate_url the base name of the file
\* name returned by generate_filename_from_url is not empty and neither
\* begins nor ends with '-', also when it was cut to 200 characters.
C30_BaseNameWellFormed ==
    DerivedForAcceptedUrl =>
        /\ BaseNameReturned # <<>>
        /\ BaseNameReturned[1] # "-"
        /\ BaseNameReturned[Len(BaseNameReturned)] # "-"

\* The same for the base names that are not empty and were not cut.
C30_UncutBaseNames ==
    (DerivedForAcceptedUrl /\ BaseNameReturned # <<>> /\ Len(BaseNameReturned) < MaxBaseName) =>
        /\ BaseNameReturned[1] # "-"
        /\ BaseNameReturned[Len(BaseNameReturned)] # "-"

\* A last segment of 199 letters followed by '-b' is cut after the hyphen:
\* the base name has 200 characters and ends with '-'.
C30_CutAtHyphen ==
    /\ DerivedForAcceptedUrl
    /\ fn_in.url = S_origin \o <<"/", "p", "/">> \o Rep("a", 199) \o <<"-", "b">>
    /\ Len(BaseNameReturned) = 200
    /\ BaseNameReturned[200] = "-"

\* The URL 'https://a.io/*' is accepted and its base name is empty.
C30_EmptyBaseName ==
    /\ DerivedForAcceptedUrl
    /\ fn_in.url = S_origin \o <<"/", "*">>
    /\ BaseNameReturned = <<>>

====
